---- MODULE Spec2Model ----
(***************************************************************************)
(* ActivityStack (src/unnamed/part_000): a stack of activated activities   *)
(* whose push/replace/pop/up operations are serialised by two promise       *)
(* chains, _pushP and _transitionP.  A promise chain `p = p.then(f)` is     *)
(* modelled as a queue of entries: an entry runs when every entry before it *)
(* has resolved, and it is rejected without running once the chain holds a  *)
(* rejection.  Every synchronous block of the source is one action.         *)
(***************************************************************************)
EXTENDS Integers, Sequences, FiniteSets, TLC

\* ------------------------------------------------------------------ bounds
MaxCalls == 3            \* top-level pushAsync/replaceAsync/popAsync/upAsync calls
UpBound == 2             \* the pop limit N of upAsync where stacks grow deeper than N
MaxCursors == 2          \* cursors handed out by getCursor() and clone()
MaxBack == 1             \* how far below index 0 goBack() is followed

\* --------------------------------------------------------- program constants
UpLimit == 1000          \* upAsync: `count < 1000`

\* ------------------------------------------------------------- the universe
None == "none"           \* JavaScript `undefined`
Activities == {"a1", "a2", "a3"}

NoOptions == [parentActivity |-> None, isRootActivity |-> FALSE,
              isHubActivity |-> FALSE, isTransient |-> FALSE]

\* Activity.options of the three activities: the hierarchies the calls run on.
\* chain: a1 is a root activity, a2 declares parent a1, a3 declares parent a2.
\* hub:   a1 is a hub activity, a2 declares parent a1, a3 is transient.
Hierarchies ==
    { [a1 |-> [NoOptions EXCEPT !.isRootActivity = TRUE],
       a2 |-> [NoOptions EXCEPT !.parentActivity = "a1"],
       a3 |-> [NoOptions EXCEPT !.parentActivity = "a2"]],
      [a1 |-> [NoOptions EXCEPT !.isHubActivity = TRUE],
       a2 |-> [NoOptions EXCEPT !.parentActivity = "a1"],
       a3 |-> [NoOptions EXCEPT !.isTransient = TRUE]] }

Operations == {"Push", "Replace", "Pop"}

VARIABLES
    options,             \* Activity.options, fixed at construction
    upLimit,             \* the pop limit of upAsync (`count < 1000`), fixed
    cursors,             \* the `idx` of every cursor handed out by getCursor/clone
    track,               \* history switch: calls record the stack they are issued on
    peer,                \* a second ActivityStack instance of the same module
    stack,               \* _stack (index 0 of the source is element 1 here)
    topIndex,            \* _idx.value, -1 when empty (0-based as in the source)
    historyIds,          \* _historyIds
    nextHistoryId,       \* _nextHistoryId
    nextTransitionID,    \* _nextTransitionID
    previousTransition,  \* module-level previousTransition (id, -1 = undefined)
    transQ,              \* the _transitionP chain: entries not yet settled
    transErr,            \* rejection reason held by the _transitionP chain, or None
    pushQ,               \* the _pushP chain: entries not yet settled
    pushErr,             \* rejection reason held by the _pushP chain, or None
    nextSeq,             \* arrival number of the next _transitionP entry
    doneSeq,             \* arrival number of the last resolved _transitionP entry
    calls,               \* the top-level calls issued so far and their futures
    commits,             \* history: the transitions committed, in commit order
    sigs                 \* history: signals emitted for the newest transition record

vars == <<options, upLimit, cursors, track, peer, stack, topIndex, historyIds, nextHistoryId,
          nextTransitionID, previousTransition, transQ, transErr, pushQ, pushErr, nextSeq, doneSeq,
          calls, commits, sigs>>

\* the second instance before any call on it: its _stack, topIndex and
\* _historyIds, the entries of its _transitionP chain not yet settled,
\* whether that chain is rejected, the transition records it has created, and
\* the number of calls made on it
NoPeer == [stack |-> <<>>, topIndex |-> -1, historyIds |-> <<>>,
           q |-> <<>>, err |-> FALSE, log |-> <<>>, calls |-> 0]

\* ------------------------------------------------------------------ helpers
\* stack[i] of the source: undefined outside the array
At(s, i) == IF i >= 0 /\ i < Len(s) THEN s[i + 1] ELSE None

\* get top()
Top == IF topIndex < 0 THEN None ELSE At(stack, topIndex)

\* length: the number of activities on the stack
Length == topIndex + 1

\* contains(activityOrClass), instance form, over the array s with top index ti
ContainsIn(s, ti, a) == \E i \in 0..ti : At(s, i) = a

Contains(a) == ContainsIn(stack, topIndex, a)

\* the null transition record
NoT == [id |-> -1, op |-> "none", to |-> None, from |-> None, previous |-> -1,
        call |-> 0, seq |-> 0]

\* one emission: the signal, the activity it is emitted on, topIndex at that
\* moment, and the transition record (id, owning call) it carries
Sig(name, a, ti, t) ==
    [sig |-> name, on |-> a, top |-> ti, tid |-> t.id, call |-> t.call]

RemoveAt(q, i) == [j \in 1..(Len(q) - 1) |-> IF j < i THEN q[j] ELSE q[j + 1]]

Max(a, b) == IF a >= b THEN a ELSE b

Reverse(s) == [j \in 1..Len(s) |-> s[Len(s) + 1 - j]]

\* ---------------------------------------------------------------- classes
\* Every activity is an instance of the base class and of its own class.
Classes == {"Activity", "K1", "K2", "K3"}

ClassOf == [a1 |-> "K1", a2 |-> "K2", a3 |-> "K3"]

\* `a instanceof k`
IsInstance(a, k) == a \in Activities /\ (k = "Activity" \/ ClassOf[a] = k)

\* one element compared with an activity (===) or a class (instanceof)
Matches(a, x) == IF x \in Activities THEN a = x ELSE IsInstance(a, x)

\* contains(activityOrClass)
ContainsTarget(x) == \E i \in 0..topIndex : Matches(At(stack, i), x)

\* getParent(ActivityClass, before): the nearest instance below the foreground
RECURSIVE GetParentFrom(_, _, _, _)
GetParentFrom(i, k, before, seenBefore) ==
    IF i < 0 THEN None
    ELSE IF (seenBefore \/ before = None) /\ IsInstance(At(stack, i), k)
         THEN At(stack, i)
         ELSE GetParentFrom(i - 1, k, before, seenBefore \/ At(stack, i) = before)

GetParent(k, before) ==
    GetParentFrom(topIndex - 1, k, before, At(stack, topIndex) = before)

\* ActivityClass.getInstance(): the instance of a class-typed parent
GetInstance(k) == CHOOSE a \in Activities : IsInstance(a, k)

\* _findParents(activity, excludeTop): activities to push, ancestors first
RECURSIVE FindParentsFrom(_, _)
FindParentsFrom(result, excludeTop) ==
    LET parent == options[Head(result)].parentActivity IN
    IF parent = None THEN result
    ELSE IF parent \in Activities
         THEN IF Contains(parent) /\ (~excludeTop \/ Top # parent)
              THEN result
              ELSE FindParentsFrom(<<parent>> \o result, excludeTop)
         ELSE IF (~excludeTop /\ IsInstance(Top, parent))
                 \/ GetParent(parent, None) # None
              THEN result
              ELSE FindParentsFrom(<<GetInstance(parent)>> \o result, excludeTop)

FindParents(activity, excludeTop) == FindParentsFrom(<<activity>>, excludeTop)

\* getCursor().activity for cursor index idx (clamped on read)
CursorActivity(idx) ==
    LET i == IF idx >= Len(stack) THEN Len(stack) - 1 ELSE idx IN
    IF i < 0 THEN None ELSE At(stack, i)

\* _popTransient: the activity handed to upAsync, or None when nothing is popped
RECURSIVE PopTransientWalk(_)
PopTransientWalk(idx) ==
    IF CursorActivity(idx) # None /\ options[CursorActivity(idx)].isTransient
    THEN PopTransientWalk(idx - 1)
    ELSE CursorActivity(idx)

\* faulty variant: a transient foreground is left where it is
PopTransientTargetNone == None

\* faulty variant: only the foreground is taken off, whatever lies beneath it
PopTransientTargetOne ==
    IF Top # None /\ options[Top].isTransient THEN CursorActivity(topIndex - 1) ELSE None

PopTransientTarget ==
    IF Top # None /\ options[Top].isTransient THEN PopTransientWalk(topIndex) ELSE None

\* faulty variant: a hub parent is not walked up to
UpToHubOrRootTargetNoHub(activity) ==
    IF options[activity].isRootActivity /\ Contains(activity) THEN activity ELSE None

\* faulty variant: a root activity on the stack is not walked up to
UpToHubOrRootTargetNoRoot(activity) ==
    LET declared == options[activity].parentActivity
        parent == IF declared = None \/ declared \in Activities THEN declared
                  ELSE GetParent(declared, None)
    IN IF parent # None /\ options[parent].isHubActivity THEN parent ELSE None

\* _upToHubOrRoot: the activity handed to upAsync after the transient pop, or None
UpToHubOrRootTarget(activity) ==
    IF options[activity].isRootActivity /\ Contains(activity) THEN activity
    ELSE LET declared == options[activity].parentActivity
             parent == IF declared = None \/ declared \in Activities THEN declared
                       ELSE GetParent(declared, None)
         IN IF parent # None /\ options[parent].isHubActivity THEN parent ELSE None

\* Array.prototype.lastIndexOf: the scan from the end of the array, 0-based,
\* -1 when absent
RECURSIVE LastIndexFrom(_, _, _)
LastIndexFrom(s, x, i) ==
    IF i < 0 THEN -1
    ELSE IF s[i + 1] = x THEN i
    ELSE LastIndexFrom(s, x, i - 1)

LastIndexOf(s, x) == LastIndexFrom(s, x, Len(s) - 1)

\* peek() without ignoreBackgroundActivities: the loop returns the first slot
\* above topIndex, undefined (None) if the array ends at topIndex
Peek == IF topIndex + 1 < Len(stack) THEN At(stack, topIndex + 1) ELSE None

\* getHistoryPosition(historyId): <<>> stands for undefined, <<n>> for n
GetHistoryPosition(historyId) ==
    LET idx == LastIndexOf(historyIds, historyId)
        top == topIndex
    IN IF idx < 0 THEN <<>>
       ELSE IF idx = top THEN <<0>>
       ELSE IF idx < top THEN <<-1>> ELSE <<1>>

\* faulty variant: a pushed slot is given an id without minting a new one
CommitResultStaleId(t) ==
    LET ti == IF t.op = "Push" THEN topIndex ELSE topIndex - 1 IN
    IF t.op = "Pop"
    THEN [stack |-> stack, topIndex |-> ti, historyIds |-> historyIds,
          nextHistoryId |-> nextHistoryId, deact |-> <<>>]
    ELSE IF Len(stack) > ti + 1 /\ At(stack, ti + 1) = t.to
    THEN [stack |-> stack, topIndex |-> ti + 1, historyIds |-> historyIds,
          nextHistoryId |-> nextHistoryId, deact |-> <<>>]
    ELSE LET keep == Max(ti + 1, 0)
             removed == Reverse(SubSeq(stack, keep + 1, Len(stack)))
             newStack == Append(SubSeq(stack, 1, keep), t.to)
         IN [stack |-> newStack,
             topIndex |-> Len(newStack) - 1,
             historyIds |-> [j \in 1..Len(newStack) |->
                               IF j = Len(newStack) THEN Max(nextHistoryId - 1, 0)
                               ELSE IF j <= Len(historyIds) THEN historyIds[j]
                               ELSE -1],
             nextHistoryId |-> Max(nextHistoryId, 1),
             deact |-> SelectSeq(removed, LAMBDA a : ~ContainsIn(stack, ti, a))]

\* faulty variant: the history ids are not cut back with the array
CommitResultNoTruncate(t) ==
    LET ti == IF t.op = "Push" THEN topIndex ELSE topIndex - 1 IN
    IF t.op = "Pop"
    THEN [stack |-> stack, topIndex |-> ti, historyIds |-> historyIds,
          nextHistoryId |-> nextHistoryId, deact |-> <<>>]
    ELSE IF Len(stack) > ti + 1 /\ At(stack, ti + 1) = t.to
    THEN [stack |-> stack, topIndex |-> ti + 1, historyIds |-> historyIds,
          nextHistoryId |-> nextHistoryId, deact |-> <<>>]
    ELSE LET keep == Max(ti + 1, 0)
             removed == Reverse(SubSeq(stack, keep + 1, Len(stack)))
             newStack == Append(SubSeq(stack, 1, keep), t.to)
         IN [stack |-> newStack,
             topIndex |-> Len(newStack) - 1,
             historyIds |-> Append(historyIds, nextHistoryId),
             nextHistoryId |-> nextHistoryId + 1,
             deact |-> SelectSeq(removed, LAMBDA a : ~ContainsIn(stack, ti, a))]

\* faulty variant: a push never re-enters the forward history
CommitResultNoRedo(t) ==
    LET ti == IF t.op = "Push" THEN topIndex ELSE topIndex - 1 IN
    IF t.op = "Pop"
    THEN [stack |-> stack, topIndex |-> ti, historyIds |-> historyIds,
          nextHistoryId |-> nextHistoryId, deact |-> <<>>]
    ELSE LET keep == Max(ti + 1, 0)
             removed == Reverse(SubSeq(stack, keep + 1, Len(stack)))
             newStack == Append(SubSeq(stack, 1, keep), t.to)
         IN [stack |-> newStack,
             topIndex |-> Len(newStack) - 1,
             historyIds |-> [j \in 1..Len(newStack) |->
                               IF j = Len(newStack) THEN nextHistoryId
                               ELSE IF j <= Len(historyIds) THEN historyIds[j]
                               ELSE -1],
             nextHistoryId |-> nextHistoryId + 1,
             deact |-> SelectSeq(removed, LAMBDA a : ~ContainsIn(stack, ti, a))]

\* faulty variant: the id of the first slot cut off is given to the new slot
CommitResultRecycleId(t) ==
    LET ti == IF t.op = "Push" THEN topIndex ELSE topIndex - 1 IN
    IF t.op = "Pop"
    THEN [stack |-> stack, topIndex |-> ti, historyIds |-> historyIds,
          nextHistoryId |-> nextHistoryId, deact |-> <<>>]
    ELSE IF Len(stack) > ti + 1 /\ At(stack, ti + 1) = t.to
    THEN [stack |-> stack, topIndex |-> ti + 1, historyIds |-> historyIds,
          nextHistoryId |-> nextHistoryId, deact |-> <<>>]
    ELSE LET keep == Max(ti + 1, 0)
             removed == Reverse(SubSeq(stack, keep + 1, Len(stack)))
             newStack == Append(SubSeq(stack, 1, keep), t.to)
             reuse == Len(historyIds) > keep
         IN [stack |-> newStack,
             topIndex |-> Len(newStack) - 1,
             historyIds |-> [j \in 1..Len(newStack) |->
                               IF j = Len(newStack)
                               THEN (IF reuse THEN historyIds[keep + 1] ELSE nextHistoryId)
                               ELSE IF j <= Len(historyIds) THEN historyIds[j]
                               ELSE -1],
             nextHistoryId |-> IF reuse THEN nextHistoryId ELSE nextHistoryId + 1,
             deact |-> SelectSeq(removed, LAMBDA a : ~ContainsIn(stack, ti, a))]

\* faulty variant: a pop discards the entry it leaves and deactivates it
CommitResultPopCuts(t) ==
    LET ti == IF t.op = "Push" THEN topIndex ELSE topIndex - 1 IN
    IF t.op = "Pop"
    THEN [stack |-> SubSeq(stack, 1, ti + 1), topIndex |-> ti,
          historyIds |-> SubSeq(historyIds, 1, ti + 1),
          nextHistoryId |-> nextHistoryId,
          deact |-> IF ContainsIn(stack, ti, Top) THEN <<>> ELSE <<Top>>]
    ELSE IF Len(stack) > ti + 1 /\ At(stack, ti + 1) = t.to
    THEN [stack |-> stack, topIndex |-> ti + 1, historyIds |-> historyIds,
          nextHistoryId |-> nextHistoryId, deact |-> <<>>]
    ELSE LET keep == Max(ti + 1, 0)
             removed == Reverse(SubSeq(stack, keep + 1, Len(stack)))
             newStack == Append(SubSeq(stack, 1, keep), t.to)
         IN [stack |-> newStack,
             topIndex |-> Len(newStack) - 1,
             historyIds |-> [j \in 1..Len(newStack) |->
                               IF j = Len(newStack) THEN nextHistoryId
                               ELSE IF j <= Len(historyIds) THEN historyIds[j]
                               ELSE -1],
             nextHistoryId |-> nextHistoryId + 1,
             deact |-> SelectSeq(removed, LAMBDA a : ~ContainsIn(stack, ti, a))]

\* faulty variant: every discarded entry is deactivated
CommitResultDeactivateAll(t) ==
    LET ti == IF t.op = "Push" THEN topIndex ELSE topIndex - 1 IN
    IF t.op = "Pop"
    THEN [stack |-> stack, topIndex |-> ti, historyIds |-> historyIds,
          nextHistoryId |-> nextHistoryId, deact |-> <<>>]
    ELSE IF Len(stack) > ti + 1 /\ At(stack, ti + 1) = t.to
    THEN [stack |-> stack, topIndex |-> ti + 1, historyIds |-> historyIds,
          nextHistoryId |-> nextHistoryId, deact |-> <<>>]
    ELSE LET keep == Max(ti + 1, 0)
             removed == Reverse(SubSeq(stack, keep + 1, Len(stack)))
             newStack == Append(SubSeq(stack, 1, keep), t.to)
         IN [stack |-> newStack,
             topIndex |-> Len(newStack) - 1,
             historyIds |-> [j \in 1..Len(newStack) |->
                               IF j = Len(newStack) THEN nextHistoryId
                               ELSE IF j <= Len(historyIds) THEN historyIds[j]
                               ELSE -1],
             nextHistoryId |-> nextHistoryId + 1,
             deact |-> removed]

\* _processTransition, the structural change of the commit: the new array, top
\* index and history ids, and the activities sent Deactivated, in order
CommitResult(t) ==
    LET ti == IF t.op = "Push" THEN topIndex ELSE topIndex - 1 IN
    IF t.op = "Pop"
    THEN [stack |-> stack, topIndex |-> ti, historyIds |-> historyIds,
          nextHistoryId |-> nextHistoryId, deact |-> <<>>]
    ELSE IF Len(stack) > ti + 1 /\ At(stack, ti + 1) = t.to
    THEN [stack |-> stack, topIndex |-> ti + 1, historyIds |-> historyIds,
          nextHistoryId |-> nextHistoryId, deact |-> <<>>]
    ELSE LET keep == Max(ti + 1, 0)
             removed == Reverse(SubSeq(stack, keep + 1, Len(stack)))
             newStack == Append(SubSeq(stack, 1, keep), t.to)
         IN [stack |-> newStack,
             topIndex |-> Len(newStack) - 1,
             historyIds |-> [j \in 1..Len(newStack) |->
                               IF j = Len(newStack) THEN nextHistoryId
                               ELSE IF j <= Len(historyIds) THEN historyIds[j]
                               ELSE -1],
             nextHistoryId |-> nextHistoryId + 1,
             deact |-> SelectSeq(removed, LAMBDA a : ~ContainsIn(stack, ti, a))]

\* faulty variant: Suspended is emitted on the old foreground before the new one resumes
CommitSignalsSuspendedFirst(t, resuming, r) ==
    <<Sig("Transition", None, topIndex, t)>>
    \o [j \in 1..Len(r.deact) |->
          Sig("Deactivated", r.deact[j],
              IF t.op = "Push" THEN topIndex ELSE topIndex - 1, t)]
    \o <<Sig("TransitionSync", None, r.topIndex, t)>>
    \o (IF t.from # None THEN <<Sig("Suspended", t.from, r.topIndex, t)>> ELSE <<>>)
    \o (IF t.to # None
        THEN (IF ~resuming THEN <<Sig("Started", t.to, r.topIndex, t)>> ELSE <<>>)
             \o <<Sig("Resumed", t.to, r.topIndex, t)>>
        ELSE <<>>)

\* faulty variant: TransitionSync is emitted before the structural change
CommitSignalsSyncEarly(t, resuming, r) ==
    <<Sig("Transition", None, topIndex, t),
      Sig("TransitionSync", None, topIndex, t)>>
    \o [j \in 1..Len(r.deact) |->
          Sig("Deactivated", r.deact[j],
              IF t.op = "Push" THEN topIndex ELSE topIndex - 1, t)]
    \o (IF t.to # None
        THEN (IF ~resuming THEN <<Sig("Started", t.to, r.topIndex, t)>> ELSE <<>>)
             \o <<Sig("Resumed", t.to, r.topIndex, t)>>
        ELSE <<>>)
    \o (IF t.from # None THEN <<Sig("Suspended", t.from, r.topIndex, t)>> ELSE <<>>)

\* the signals of the commit block, in emission order
CommitSignals(t, resuming, r) ==
    <<Sig("Transition", None, topIndex, t)>>
    \o [j \in 1..Len(r.deact) |->
          Sig("Deactivated", r.deact[j],
              IF t.op = "Push" THEN topIndex ELSE topIndex - 1, t)]
    \o <<Sig("TransitionSync", None, r.topIndex, t)>>
    \o (IF t.to # None
        THEN (IF ~resuming THEN <<Sig("Started", t.to, r.topIndex, t)>> ELSE <<>>)
             \o <<Sig("Resumed", t.to, r.topIndex, t)>>
        ELSE <<>>)
    \o (IF t.from # None THEN <<Sig("Suspended", t.from, r.topIndex, t)>> ELSE <<>>)

\* ------------------------------------------------------------ queue entries
NoSnapshot == [stack |-> <<>>, topIndex |-> -1, historyIds |-> <<>>]

\* one `.then(...)` callback appended to _transitionP.  own: the entry's promise
\* is the future of a popAsync/upAsync call; otherwise the entry belongs to the
\* pushAsync/replaceAsync call `call` (its transient/hub/root walk or its main step)
NewEntry(kind, call, own, arg) ==
    [seq |-> nextSeq, kind |-> kind, call |-> call, own |-> own, arg |-> arg,
     st |-> "queued", plan |-> <<>>, t |-> NoT, resuming |-> FALSE, count |-> 0,
     pre |-> NoSnapshot]

NewCall(kind, arg) ==
    [kind |-> kind, arg |-> arg, status |-> "pending", err |-> None, res |-> None,
     resT |-> -1,
     \* history: the argument was the foreground of an idle stack at the call
     fg |-> (Top = arg /\ arg # None /\ transQ = <<>> /\ pushQ = <<>>),
     \* history: the argument of a replaceAsync lay directly beneath the
     \* foreground of an idle stack at the call
     below |-> (kind = "replace" /\ topIndex >= 1 /\ At(stack, topIndex - 1) = arg
                /\ transQ = <<>> /\ pushQ = <<>>),
     \* history, kept when track is set: the array, top index and history ids
     \* at the call
     at |-> IF track
            THEN [stack |-> stack, topIndex |-> topIndex, historyIds |-> historyIds]
            ELSE NoSnapshot]

\* one line of the commit history: the record, whether it was the no-op short
\* circuit, whether it resumed, the foreground right after it, and the
\* activities it sent Deactivated
Committed(t, noop, resuming, top, deact) ==
    [t |-> t, noop |-> noop, resuming |-> resuming, top |-> top, deact |-> deact]

\* faulty variant: a callback runs as soon as it is chained
ReadyAny(i) == TRUE

\* faulty variant: only the callbacks of popAsync skip the chain
ReadyUnlessPop(i) == i = 1 \/ transQ[i].kind = "pop"

\* `this._transitionP.then(f)`: f runs once every earlier entry has resolved
Ready(i) == i = 1

\* faulty variant: a callback chained on _pushP runs as soon as it is chained
PushReadyAny(j) == TRUE

\* `this._pushP.then(f)`
PushReady(j) == j = 1

\* faulty variant: the no-op short circuit never applies
NeverForeground(to) == FALSE

\* `if (this.top === to)`: nothing to do at all
AlreadyForeground(to) == Top = to

\* _processTransition(to, op) up to its first wait, run for entry e with
\* `previous` = prev: the new record, the no-op short circuit, Suspending
ProcessTransition(e, to, op, prev) ==
    LET t == [id |-> nextTransitionID, op |-> op, to |-> to, from |-> Top,
              previous |-> prev, call |-> e.call, seq |-> e.seq]
        snap == [stack |-> stack, topIndex |-> topIndex, historyIds |-> historyIds]
    IN IF AlreadyForeground(to)
       THEN [mode |-> "run",
             entry |-> [e EXCEPT !.st = "settled", !.t = t, !.resuming = FALSE,
                                 !.pre = snap],
             tid |-> nextTransitionID + 1, prev |-> t.id, sigs |-> <<>>,
             topIndex |-> IF op = "Pop" THEN topIndex - 1 ELSE topIndex,
             commits |-> Append(commits, Committed(t, TRUE, FALSE,
                                   IF op = "Pop" THEN At(stack, topIndex - 1) ELSE Top,
                                   <<>>)),
             err |-> None, res |-> None]
       ELSE [mode |-> "run",
             entry |-> [e EXCEPT !.st = "suspending", !.t = t,
                                 !.resuming = (to # None /\ Contains(to)),
                                 !.pre = snap],
             tid |-> nextTransitionID + 1, prev |-> t.id,
             sigs |-> IF Top # None THEN <<Sig("Suspending", Top, topIndex, t)>> ELSE <<>>,
             topIndex |-> topIndex, commits |-> commits,
             err |-> None, res |-> None]

\* the callback returns without a (further) transition: the entry resolves to res
Finished(e, prev, res) ==
    [mode |-> "finish", entry |-> e, tid |-> nextTransitionID, prev |-> prev,
     sigs |-> sigs, topIndex |-> topIndex, commits |-> commits,
     err |-> None, res |-> res]

\* the callback throws: the entry, and with it the chain, is rejected
Thrown(e, prev, err) ==
    [mode |-> "reject", entry |-> e, tid |-> nextTransitionID, prev |-> prev,
     sigs |-> sigs, topIndex |-> topIndex, commits |-> commits,
     err |-> err, res |-> None]

\* faulty variant: an upAsync that finds no match resolves to the foreground
RecurseReturnsTop(e, prev) ==
    IF Matches(Top, e.arg) THEN Finished(e, prev, Top)
    ELSE IF e.count < upLimit /\ ContainsTarget(e.arg)
         THEN ProcessTransition([e EXCEPT !.count = @ + 1],
                                At(stack, topIndex - 1), "Pop", prev)
         ELSE Finished(e, prev, Top)

\* faulty variant: upAsync pops whether or not the stack contains the target
RecurseBlind(e, prev) ==
    IF Matches(Top, e.arg) THEN Finished(e, prev, Top)
    ELSE IF e.count < upLimit /\ topIndex >= 0
         THEN ProcessTransition([e EXCEPT !.count = @ + 1],
                                At(stack, topIndex - 1), "Pop", prev)
         ELSE Finished(e, prev, None)

\* faulty variant: upAsync does not count its pops
RecurseUnbounded(e, prev) ==
    IF Matches(Top, e.arg) THEN Finished(e, prev, Top)
    ELSE IF ContainsTarget(e.arg)
         THEN ProcessTransition([e EXCEPT !.count = @ + 1],
                                At(stack, topIndex - 1), "Pop", prev)
         ELSE Finished(e, prev, None)

\* upAsync: recurse(last)
Recurse(e, prev) ==
    IF Matches(Top, e.arg) THEN Finished(e, prev, Top)
    ELSE IF e.count < upLimit /\ ContainsTarget(e.arg)
         THEN ProcessTransition([e EXCEPT !.count = @ + 1],
                                At(stack, topIndex - 1), "Pop", prev)
         ELSE Finished(e, prev, None)

\* faulty variant: the guard of popAsync(activity) is tested before the empty stack
PopStepGuardFirst(e) ==
    IF e.arg # None /\ Top # e.arg THEN Finished(e, -1, "undefined")
    ELSE IF topIndex < 0 THEN Thrown(e, -1, "No activity to suspend")
    ELSE ProcessTransition(e, At(stack, topIndex - 1), "Pop", -1)

\* faulty variant: popAsync(activity) pops whatever the foreground is
PopStepUnguarded(e) ==
    IF topIndex < 0 THEN Thrown(e, -1, "No activity to suspend")
    ELSE ProcessTransition(e, At(stack, topIndex - 1), "Pop", -1)

\* faulty variant: popAsync does not test for the empty stack
PopStepUnchecked(e) ==
    IF e.arg # None /\ Top # e.arg THEN Finished(e, -1, "undefined")
    ELSE ProcessTransition(e, At(stack, topIndex - 1), "Pop", -1)

\* faulty variant: popAsync names the activity two slots beneath the foreground
PopStepTwoBeneath(e) ==
    IF topIndex < 0 THEN Thrown(e, -1, "No activity to suspend")
    ELSE IF e.arg # None /\ Top # e.arg THEN Finished(e, -1, "undefined")
    ELSE ProcessTransition(e, At(stack, topIndex - 2), "Pop", -1)

\* popAsync: the callback chained on _transitionP
PopStep(e) ==
    IF topIndex < 0 THEN Thrown(e, -1, "No activity to suspend")
    ELSE IF e.arg # None /\ Top # e.arg THEN Finished(e, -1, "undefined")
    ELSE ProcessTransition(e, At(stack, topIndex - 1), "Pop", -1)

\* faulty variant: pushAsync pushes the activity first and its ancestors after it
PushStepLeafFirst(e) ==
    LET plan == Reverse(FindParents(e.arg, FALSE)) IN
    ProcessTransition([e EXCEPT !.plan = Tail(plan)], Head(plan), "Push", -1)

\* pushAsync: the callback chained on _transitionP (first ancestor runs at once)
PushStep(e) ==
    LET plan == FindParents(e.arg, FALSE) IN
    ProcessTransition([e EXCEPT !.plan = Tail(plan)], Head(plan), "Push", -1)

\* faulty variant: replaceAsync pushes onto a non-empty stack
ReplaceStepPush(e) ==
    LET lonely == topIndex < 0
        plan == FindParents(e.arg, TRUE)
    IN IF ~lonely /\ At(stack, topIndex - 1) = e.arg
       THEN ProcessTransition(e, e.arg, "Pop", -1)
       ELSE ProcessTransition([e EXCEPT !.plan = Tail(plan)], Head(plan), "Push", -1)

\* replaceAsync: the callback chained on _transitionP
ReplaceStep(e) ==
    LET lonely == topIndex < 0
        plan == FindParents(e.arg, TRUE)
    IN IF ~lonely /\ At(stack, topIndex - 1) = e.arg
       THEN ProcessTransition(e, e.arg, "Pop", -1)
       ELSE ProcessTransition([e EXCEPT !.plan = Tail(plan)], Head(plan),
                              IF lonely THEN "Push" ELSE "Replace", -1)

\* what the callback of entry e does when it first runs (previousTransition is reset)
BeginStep(e) ==
    CASE e.kind = "pop" -> PopStep(e)
      [] e.kind = "up" -> Recurse(e, -1)
      [] e.kind = "push" -> PushStep(e)
      [] e.kind = "replace" -> ReplaceStep(e)

\* faulty variant: the records after the first of a step are not chained
ContinueStepUnchained(e) ==
    CASE e.kind = "pop" -> Finished(e, previousTransition, "T")
      [] e.kind = "up" -> Recurse(e, -1)
      [] e.kind \in {"push", "replace"} ->
            IF e.plan = <<>> THEN Finished(e, previousTransition, "T")
            ELSE ProcessTransition([e EXCEPT !.plan = Tail(@)], Head(e.plan),
                                   "Push", -1)

\* what follows a resolved transition of entry e: the next ancestor of a
\* push/replace (`result.then(p)`), the next round of an up (`.then(recurse)`)
ContinueStep(e) ==
    CASE e.kind = "pop" -> Finished(e, previousTransition, "T")
      [] e.kind = "up" -> Recurse(e, previousTransition)
      [] e.kind \in {"push", "replace"} ->
            IF e.plan = <<>> THEN Finished(e, previousTransition, "T")
            ELSE ProcessTransition([e EXCEPT !.plan = Tail(@)], Head(e.plan),
                                   "Push", previousTransition)

\* the future of call c settles
Settle(c, status, err, res, tid) ==
    [calls EXCEPT ![c] = [@ EXCEPT !.status = status, !.err = err, !.res = res,
                                   !.resT = tid]]

\* apply an outcome o of entry i
Apply(i, o) ==
    LET e == transQ[i] IN
    /\ nextTransitionID' = o.tid
    /\ previousTransition' = o.prev
    /\ sigs' = o.sigs
    /\ topIndex' = o.topIndex
    /\ commits' = o.commits
    /\ transQ' = IF o.mode = "run" THEN [transQ EXCEPT ![i] = o.entry]
                 ELSE RemoveAt(transQ, i)
    /\ doneSeq' = IF o.mode = "finish" THEN Max(doneSeq, e.seq) ELSE doneSeq
    /\ transErr' = IF o.mode = "reject" THEN o.err ELSE transErr
    /\ calls' = CASE o.mode = "finish" /\ e.own ->
                       Settle(e.call, "resolved", None, o.res,
                              IF o.res = "T" THEN e.t.id ELSE -1)
                  [] o.mode = "finish" /\ ~e.own /\ e.kind \in {"push", "replace"} ->
                       [calls EXCEPT ![e.call].resT = e.t.id]
                  [] o.mode = "reject" /\ e.own ->
                       Settle(e.call, "rejected", o.err, None, -1)
                  [] OTHER -> calls
    /\ UNCHANGED <<options, upLimit, cursors, track, peer,
                   stack, historyIds, nextHistoryId, pushQ, pushErr, nextSeq>>

\* ------------------------------------------------------------------ calls
\* pushAsync(activity) / replaceAsync(activity): chain on _pushP
CallPush(kind, a) ==
    /\ Len(calls) < MaxCalls
    /\ calls' = Append(calls, NewCall(kind, a))
    /\ pushQ' = Append(pushQ, [call |-> Len(calls) + 1, st |-> "queued",
                               mark |-> 0, target |-> None])
    /\ UNCHANGED <<options, upLimit, cursors, track, peer,
                   stack, topIndex, historyIds, nextHistoryId,
                   nextTransitionID, previousTransition, transQ, transErr, pushErr,
                   nextSeq, doneSeq, commits, sigs>>

\* popAsync() / popAsync(activity) / upAsync(activityOrClass): chain on _transitionP
CallDirect(kind, x) ==
    /\ Len(calls) < MaxCalls
    /\ calls' = Append(calls, NewCall(kind, x))
    /\ transQ' = Append(transQ, NewEntry(kind, Len(calls) + 1, TRUE, x))
    /\ nextSeq' = nextSeq + 1
    /\ UNCHANGED <<options, upLimit, cursors, track, peer,
                   stack, topIndex, historyIds, nextHistoryId,
                   nextTransitionID, previousTransition, transErr, pushQ, pushErr,
                   doneSeq, commits, sigs>>

\* -------------------------------------------------- the _transitionP chain
\* the callback of entry i runs
Begin(i) ==
    /\ transQ[i].st = "queued"
    /\ Ready(i)
    /\ transErr = None
    /\ Apply(i, BeginStep(transQ[i]))

\* entry i was chained on a rejected promise: it is rejected without running
RejectQueued(i) ==
    /\ transQ[i].st = "queued"
    /\ Ready(i)
    /\ transErr # None
    /\ Apply(i, Thrown(transQ[i], previousTransition, transErr))

\* faulty variant: the activity is started whether or not the stack holds it
HandlersDoneStarting(i) ==
    LET e == transQ[i] IN
    /\ e.st = "suspending"
    /\ transQ' = [transQ EXCEPT ![i].st = "activating"]
    /\ sigs' = IF e.t.to = None THEN sigs
               ELSE Append(sigs, Sig("Starting", e.t.to, topIndex, e.t))
    /\ UNCHANGED <<options, upLimit, cursors, track, peer,
                   stack, topIndex, historyIds, nextHistoryId,
                   nextTransitionID, previousTransition, transErr, pushQ, pushErr,
                   nextSeq, doneSeq, calls, commits>>

\* every Suspending handler's promise resolved: emit Resuming or Starting
HandlersDone(i) ==
    LET e == transQ[i] IN
    /\ e.st = "suspending"
    /\ transQ' = [transQ EXCEPT ![i].st = "activating"]
    /\ sigs' = IF e.t.to = None THEN sigs
               ELSE Append(sigs, Sig(IF e.resuming THEN "Resuming" ELSE "Starting",
                                     e.t.to, topIndex, e.t))
    /\ UNCHANGED <<options, upLimit, cursors, track, peer,
                   stack, topIndex, historyIds, nextHistoryId,
                   nextTransitionID, previousTransition, transErr, pushQ, pushErr,
                   nextSeq, doneSeq, calls, commits>>

\* faulty variant: the structural change is applied although a handler failed
VetoButCommit(i) ==
    LET e == transQ[i]
        r == CommitResult(e.t)
    IN
    /\ \/ e.st = "suspending" /\ e.t.from # None
       \/ e.st = "activating" /\ e.t.to # None
    /\ stack' = r.stack
    /\ topIndex' = r.topIndex
    /\ historyIds' = r.historyIds
    /\ nextHistoryId' = r.nextHistoryId
    /\ transQ' = RemoveAt(transQ, i)
    /\ transErr' = "veto"
    /\ calls' = IF e.own THEN Settle(e.call, "rejected", "veto", None, -1) ELSE calls
    /\ UNCHANGED <<options, upLimit, cursors, track, peer,
                   nextTransitionID, previousTransition, pushQ, pushErr,
                   nextSeq, doneSeq, commits, sigs>>

\* a Suspending, Resuming or Starting handler throws or its promise rejects
Veto(i) ==
    LET e == transQ[i] IN
    /\ \/ e.st = "suspending" /\ e.t.from # None
       \/ e.st = "activating" /\ e.t.to # None
    /\ Apply(i, Thrown(e, previousTransition, "veto"))

\* every Resuming/Starting handler's promise resolved: the commit block
Commit(i) ==
    LET e == transQ[i]
        r == CommitResult(e.t)
    IN
    /\ e.st = "activating"
    /\ stack' = r.stack
    /\ topIndex' = r.topIndex
    /\ historyIds' = r.historyIds
    /\ nextHistoryId' = r.nextHistoryId
    /\ sigs' = sigs \o CommitSignals(e.t, e.resuming, r)
    /\ commits' = Append(commits, Committed(e.t, FALSE, e.resuming,
                                             At(r.stack, r.topIndex), r.deact))
    /\ transQ' = [transQ EXCEPT ![i].st = "settled"]
    /\ UNCHANGED <<options, upLimit, cursors, track, peer,
                   nextTransitionID, previousTransition, transErr, pushQ,
                   pushErr, nextSeq, doneSeq, calls>>

\* the promise of entry i's transition resolved: the chained callback runs
Continue(i) ==
    /\ transQ[i].st = "settled"
    /\ Apply(i, ContinueStep(transQ[i]))

\* ------------------------------------------------------- the _pushP chain
\* faulty variant: a _pushP entry does not wait for the promise it is chained on
AwaitedAlways(pq) == TRUE

\* faulty variant: a _pushP entry waits for a promise chained after the one it awaits
AwaitedNext(pq) == doneSeq > pq.mark

\* the promise awaited by a _pushP entry (the _transitionP entry numbered mark)
\* has resolved / has been rejected
Awaited(pq) == doneSeq >= pq.mark

AwaitedRejected(pq) ==
    /\ transErr # None
    /\ doneSeq < pq.mark
    /\ \A k \in 1..Len(transQ) : transQ[k].seq # pq.mark

\* `this._transitionP = this._transitionP.then(...)` of pushAsync/replaceAsync
AppendMain(j) ==
    LET pq == pushQ[j] IN
    /\ transQ' = Append(transQ, NewEntry(calls[pq.call].kind, pq.call, FALSE,
                                         calls[pq.call].arg))
    /\ nextSeq' = nextSeq + 1
    /\ pushQ' = [pushQ EXCEPT ![j] = [@ EXCEPT !.st = "main", !.mark = nextSeq]]

\* _upToHubOrRoot(activity), its synchronous part: _popTransient may call
\* upAsync; poppedP is the tail of _transitionP; the root/hub target is chosen
PreStep(j) ==
    LET pq == pushQ[j]
        transient == PopTransientTarget
    IN
    /\ pq.st = "queued"
    /\ PushReady(j)
    /\ pushErr = None
    /\ transQ' = IF transient # None
                 THEN Append(transQ, NewEntry("up", pq.call, FALSE, transient))
                 ELSE transQ
    /\ nextSeq' = IF transient # None THEN nextSeq + 1 ELSE nextSeq
    /\ pushQ' = [pushQ EXCEPT ![j] =
                    [@ EXCEPT !.st = "popped", !.mark = nextSeq' - 1,
                              !.target = UpToHubOrRootTarget(calls[pq.call].arg)]]
    /\ UNCHANGED <<options, upLimit, cursors, track, peer,
                   stack, topIndex, historyIds, nextHistoryId,
                   nextTransitionID, previousTransition, transErr, pushErr, doneSeq,
                   calls, commits, sigs>>

\* poppedP resolved: `this.upAsync(target)` for a root/hub walk, else the main step
AfterPopped(j) ==
    LET pq == pushQ[j] IN
    /\ pq.st = "popped"
    /\ Awaited(pq)
    /\ IF pq.target # None
       THEN /\ transQ' = Append(transQ, NewEntry("up", pq.call, FALSE, pq.target))
            /\ nextSeq' = nextSeq + 1
            /\ pushQ' = [pushQ EXCEPT ![j] = [@ EXCEPT !.st = "up", !.mark = nextSeq]]
       ELSE AppendMain(j)
    /\ UNCHANGED <<options, upLimit, cursors, track, peer,
                   stack, topIndex, historyIds, nextHistoryId,
                   nextTransitionID, previousTransition, transErr, pushErr, doneSeq,
                   calls, commits, sigs>>

\* the root/hub upAsync resolved and Async.sleep(2) elapsed: the main step
AfterUp(j) ==
    LET pq == pushQ[j] IN
    /\ pq.st = "up"
    /\ Awaited(pq)
    /\ AppendMain(j)
    /\ UNCHANGED <<options, upLimit, cursors, track, peer,
                   stack, topIndex, historyIds, nextHistoryId,
                   nextTransitionID, previousTransition, transErr, pushErr, doneSeq,
                   calls, commits, sigs>>

\* the main step resolved: the future of pushAsync/replaceAsync resolves
PushDone(j) ==
    LET pq == pushQ[j] IN
    /\ pq.st = "main"
    /\ Awaited(pq)
    /\ calls' = Settle(pq.call, "resolved", None, "T", calls[pq.call].resT)
    /\ pushQ' = RemoveAt(pushQ, j)
    /\ UNCHANGED <<options, upLimit, cursors, track, peer,
                   stack, topIndex, historyIds, nextHistoryId,
                   nextTransitionID, previousTransition, transQ, transErr, pushErr,
                   nextSeq, doneSeq, commits, sigs>>

\* the promise a _pushP entry waits for was rejected: so are the call and _pushP
PushFail(j) ==
    LET pq == pushQ[j] IN
    /\ pq.st \in {"popped", "up", "main"}
    /\ AwaitedRejected(pq)
    /\ calls' = Settle(pq.call, "rejected", transErr, None, -1)
    /\ pushErr' = transErr
    /\ pushQ' = RemoveAt(pushQ, j)
    /\ UNCHANGED <<options, upLimit, cursors, track, peer,
                   stack, topIndex, historyIds, nextHistoryId,
                   nextTransitionID, previousTransition, transQ, transErr, nextSeq,
                   doneSeq, commits, sigs>>

\* a _pushP entry chained on a rejected promise is rejected without running
PushRejectQueued(j) ==
    LET pq == pushQ[j] IN
    /\ pq.st = "queued"
    /\ PushReady(j)
    /\ pushErr # None
    /\ calls' = Settle(pq.call, "rejected", pushErr, None, -1)
    /\ pushQ' = RemoveAt(pushQ, j)
    /\ UNCHANGED <<options, upLimit, cursors, track, peer,
                   stack, topIndex, historyIds, nextHistoryId,
                   nextTransitionID, previousTransition, transQ, transErr, pushErr,
                   nextSeq, doneSeq, commits, sigs>>

Init ==
    /\ options \in Hierarchies
    /\ upLimit = UpLimit
    /\ cursors = <<>>
    /\ track = FALSE
    /\ peer = NoPeer
    /\ stack = <<>>
    /\ topIndex = -1
    /\ historyIds = <<>>
    /\ nextHistoryId = 0
    /\ nextTransitionID = 0
    /\ previousTransition = -1
    /\ transQ = <<>>
    /\ transErr = None
    /\ pushQ = <<>>
    /\ pushErr = None
    /\ nextSeq = 1
    /\ doneSeq = 0
    /\ calls = <<>>
    /\ commits = <<>>
    /\ sigs = <<>>

\* the arguments handed to popAsync (None: the form without argument) and the
\* targets handed to upAsync
PopGuards == {None, "a2"}

UpTargets == {"a1"}

Next ==
    \/ \E a \in Activities : CallPush("push", a)
    \/ \E a \in Activities : CallPush("replace", a)
    \/ \E g \in PopGuards : CallDirect("pop", g)
    \/ \E x \in UpTargets : CallDirect("up", x)
    \/ \E i \in 1..Len(transQ) : Begin(i)
    \/ \E i \in 1..Len(transQ) : RejectQueued(i)
    \/ \E i \in 1..Len(transQ) : HandlersDone(i)
    \/ \E i \in 1..Len(transQ) : Veto(i)
    \/ \E i \in 1..Len(transQ) : Commit(i)
    \/ \E i \in 1..Len(transQ) : Continue(i)
    \/ \E j \in 1..Len(pushQ) : PreStep(j)
    \/ \E j \in 1..Len(pushQ) : AfterPopped(j)
    \/ \E j \in 1..Len(pushQ) : AfterUp(j)
    \/ \E j \in 1..Len(pushQ) : PushDone(j)
    \/ \E j \in 1..Len(pushQ) : PushFail(j)
    \/ \E j \in 1..Len(pushQ) : PushRejectQueued(j)

Spec == Init /\ [][Next]_vars

\* the same behaviours under a second name: the invariants on transition
\* records and history ids are model-checked in a run of their own
SpecRecords == Init /\ [][Next]_vars

\* and a third name, for the invariants on the signals of a transition
SpecSignals == Init /\ [][Next]_vars

\* ------------------------------------------------------------- the cursor
\* getCursor(): a cursor on the live array, starting at the foreground
GetCursor ==
    /\ Len(cursors) < MaxCursors
    /\ cursors' = Append(cursors, topIndex)
    /\ UNCHANGED <<options, upLimit, track, peer, stack, topIndex, historyIds,
                   nextHistoryId,
                   nextTransitionID, previousTransition, transQ, transErr, pushQ,
                   pushErr, nextSeq, doneSeq, calls, commits, sigs>>

\* cursor.clone(): `cursor(idx, stack)`, a new cursor at this cursor's index
Clone(k) ==
    /\ Len(cursors) < MaxCursors
    /\ cursors' = Append(cursors, cursors[k])
    /\ UNCHANGED <<options, upLimit, track, peer, stack, topIndex, historyIds,
                   nextHistoryId,
                   nextTransitionID, previousTransition, transQ, transErr, pushQ,
                   pushErr, nextSeq, doneSeq, calls, commits, sigs>>

\* `if (idx >= stack.length) idx = stack.length - 1`
Clamp(idx) == IF idx >= Len(stack) THEN Len(stack) - 1 ELSE idx

\* cursor.activity: the getter clamps the cursor's index and reads the array
ReadActivity(k) ==
    /\ cursors' = [cursors EXCEPT ![k] = Clamp(@)]
    /\ UNCHANGED <<options, upLimit, track, peer, stack, topIndex, historyIds,
                   nextHistoryId,
                   nextTransitionID, previousTransition, transQ, transErr, pushQ,
                   pushErr, nextSeq, doneSeq, calls, commits, sigs>>

\* faulty variant: the index is shared by a cursor and its clones
GoBackShared(k) ==
    /\ cursors[k] > -MaxBack
    /\ cursors' = [j \in 1..Len(cursors) |->
                      IF cursors[j] = cursors[k] THEN cursors[j] - 1 ELSE cursors[j]]
    /\ UNCHANGED <<options, upLimit, track, peer, stack, topIndex, historyIds,
                   nextHistoryId,
                   nextTransitionID, previousTransition, transQ, transErr, pushQ,
                   pushErr, nextSeq, doneSeq, calls, commits, sigs>>

\* cursor.goBack(): `idx--`
GoBack(k) ==
    /\ cursors[k] > -MaxBack
    /\ cursors' = [cursors EXCEPT ![k] = @ - 1]
    /\ UNCHANGED <<options, upLimit, track, peer, stack, topIndex, historyIds,
                   nextHistoryId,
                   nextTransitionID, previousTransition, transQ, transErr, pushQ,
                   pushErr, nextSeq, doneSeq, calls, commits, sigs>>

\* the loop of goParent: the nearest index below i whose activity is `parent`
\* (an activity or a class), -1 when there is none
RECURSIVE ParentIndex(_, _)
ParentIndex(i, parent) ==
    IF i < 0 THEN -1
    ELSE IF parent # None /\ Matches(At(stack, i), parent) THEN i
    ELSE ParentIndex(i - 1, parent)

\* cursor.goParent()
GoParent(k) ==
    LET idx == Clamp(cursors[k])
        current == IF idx < 0 THEN None ELSE At(stack, idx)
    IN
    /\ cursors' = [cursors EXCEPT ![k] =
                      IF current = None THEN idx
                      ELSE ParentIndex(idx - 1, options[current].parentActivity)]
    /\ UNCHANGED <<options, upLimit, track, peer, stack, topIndex, historyIds,
                   nextHistoryId,
                   nextTransitionID, previousTransition, transQ, transErr, pushQ,
                   pushErr, nextSeq, doneSeq, calls, commits, sigs>>

\* The stack driven by pushAsync and popAsync() calls whose handlers do not
\* veto, with cursors created, cloned, read and moved at any moment.
QueryPushes == {"a1", "a3"}

NextQuery ==
    \/ \E a \in QueryPushes : CallPush("push", a)
    \/ CallDirect("pop", None)
    \/ \E i \in 1..Len(transQ) : Begin(i)
    \/ \E i \in 1..Len(transQ) : RejectQueued(i)
    \/ \E i \in 1..Len(transQ) : HandlersDone(i)
    \/ \E i \in 1..Len(transQ) : Commit(i)
    \/ \E i \in 1..Len(transQ) : Continue(i)
    \/ \E j \in 1..Len(pushQ) : PreStep(j)
    \/ \E j \in 1..Len(pushQ) : AfterPopped(j)
    \/ \E j \in 1..Len(pushQ) : AfterUp(j)
    \/ \E j \in 1..Len(pushQ) : PushDone(j)
    \/ \E j \in 1..Len(pushQ) : PushFail(j)
    \/ \E j \in 1..Len(pushQ) : PushRejectQueued(j)
    \/ GetCursor
    \/ \E k \in 1..Len(cursors) : Clone(k)
    \/ \E k \in 1..Len(cursors) : ReadActivity(k)
    \/ \E k \in 1..Len(cursors) : GoBack(k)
    \/ \E k \in 1..Len(cursors) : GoParent(k)

SpecQuery == Init /\ [][NextQuery]_vars

\* ------------------------------------------------- upAsync and its pop limit
\* The same program with the limit `1000` of upAsync set to UpBound, driven by
\* pushAsync and upAsync calls only, so that stacks grow deeper than the limit.
InitUp ==
    /\ options \in Hierarchies
    /\ upLimit = UpBound
    /\ cursors = <<>>
    /\ track = FALSE
    /\ peer = NoPeer
    /\ stack = <<>>
    /\ topIndex = -1
    /\ historyIds = <<>>
    /\ nextHistoryId = 0
    /\ nextTransitionID = 0
    /\ previousTransition = -1
    /\ transQ = <<>>
    /\ transErr = None
    /\ pushQ = <<>>
    /\ pushErr = None
    /\ nextSeq = 1
    /\ doneSeq = 0
    /\ calls = <<>>
    /\ commits = <<>>
    /\ sigs = <<>>

\* the activities handed to pushAsync and the targets handed to upAsync: an
\* activity and a class (K2, whose instance is a2)
UpPushes == {"a2", "a3"}

UpTargetsAll == {"a1", "K2"}

NextUp ==
    \/ \E a \in UpPushes : CallPush("push", a)
    \/ \E x \in UpTargetsAll : CallDirect("up", x)
    \/ \E i \in 1..Len(transQ) : Begin(i)
    \/ \E i \in 1..Len(transQ) : RejectQueued(i)
    \/ \E i \in 1..Len(transQ) : HandlersDone(i)
    \/ \E i \in 1..Len(transQ) : Veto(i)
    \/ \E i \in 1..Len(transQ) : Commit(i)
    \/ \E i \in 1..Len(transQ) : Continue(i)
    \/ \E j \in 1..Len(pushQ) : PreStep(j)
    \/ \E j \in 1..Len(pushQ) : AfterPopped(j)
    \/ \E j \in 1..Len(pushQ) : AfterUp(j)
    \/ \E j \in 1..Len(pushQ) : PushDone(j)
    \/ \E j \in 1..Len(pushQ) : PushFail(j)
    \/ \E j \in 1..Len(pushQ) : PushRejectQueued(j)

\* a chained callback runs once the promise it is chained on has settled
CallbacksRun ==
    \E i \in 1..Len(transQ) : Begin(i) \/ RejectQueued(i) \/ Continue(i)

\* the promises returned by the handlers of a signal settle: all resolve, or
\* one is rejected
HandlersSettle ==
    \E i \in 1..Len(transQ) : HandlersDone(i) \/ Commit(i) \/ Veto(i)

\* the callbacks chained on _pushP run, and the timer of Async.sleep(2) fires
PushCallbacksRun ==
    \E j \in 1..Len(pushQ) :
        \/ PreStep(j) \/ AfterPopped(j) \/ AfterUp(j)
        \/ PushDone(j) \/ PushFail(j) \/ PushRejectQueued(j)

SpecUp ==
    /\ InitUp /\ [][NextUp]_vars
    /\ WF_vars(CallbacksRun) /\ WF_vars(HandlersSettle) /\ WF_vars(PushCallbacksRun)

\* ------------------------------------------------ handlers that all resolve
\* The stack driven by calls of all four kinds whose Suspending, Resuming and
\* Starting handlers never throw and return promises that resolve; the
\* scheduler runs every callback whose promise has settled.
LivePushes == {"a2", "a3"}

LiveReplaces == {"a2"}

NextLive ==
    \/ \E a \in LivePushes : CallPush("push", a)
    \/ \E a \in LiveReplaces : CallPush("replace", a)
    \/ CallDirect("pop", None)
    \/ \E x \in UpTargets : CallDirect("up", x)
    \/ \E i \in 1..Len(transQ) : Begin(i)
    \/ \E i \in 1..Len(transQ) : RejectQueued(i)
    \/ \E i \in 1..Len(transQ) : HandlersDone(i)
    \/ \E i \in 1..Len(transQ) : Commit(i)
    \/ \E i \in 1..Len(transQ) : Continue(i)
    \/ \E j \in 1..Len(pushQ) : PreStep(j)
    \/ \E j \in 1..Len(pushQ) : AfterPopped(j)
    \/ \E j \in 1..Len(pushQ) : AfterUp(j)
    \/ \E j \in 1..Len(pushQ) : PushDone(j)
    \/ \E j \in 1..Len(pushQ) : PushFail(j)
    \/ \E j \in 1..Len(pushQ) : PushRejectQueued(j)

\* the promises returned by the handlers of a signal all resolve
HandlersResolve ==
    \E i \in 1..Len(transQ) : HandlersDone(i) \/ Commit(i)

SpecLive ==
    /\ Init /\ [][NextLive]_vars
    /\ WF_vars(CallbacksRun) /\ WF_vars(HandlersResolve) /\ WF_vars(PushCallbacksRun)

\* ----------------------------------------------------- one call at a time
\* The stack used sequentially: a call is issued when both chains are idle,
\* and it records the stack it is issued on.  Three hierarchies join the two
\* of Hierarchies: in one a1 is a hub activity that declares parent a3, a2
\* declares parent a1, a3 declares nothing; in another a1 is a root activity,
\* a2 declares nothing and a3 is transient; in the last a2 and a3 are
\* transient and a3 declares parent a2.
NavHierarchies ==
    Hierarchies \cup
    { [a1 |-> [NoOptions EXCEPT !.isHubActivity = TRUE, !.parentActivity = "a3"],
       a2 |-> [NoOptions EXCEPT !.parentActivity = "a1"],
       a3 |-> NoOptions],
      [a1 |-> [NoOptions EXCEPT !.isRootActivity = TRUE],
       a2 |-> NoOptions,
       a3 |-> [NoOptions EXCEPT !.isTransient = TRUE]],
      [a1 |-> NoOptions,
       a2 |-> [NoOptions EXCEPT !.isTransient = TRUE],
       a3 |-> [NoOptions EXCEPT !.isTransient = TRUE, !.parentActivity = "a2"]] }

InitNav ==
    /\ options \in NavHierarchies
    /\ upLimit = UpLimit
    /\ cursors = <<>>
    /\ track = TRUE
    /\ peer = NoPeer
    /\ stack = <<>>
    /\ topIndex = -1
    /\ historyIds = <<>>
    /\ nextHistoryId = 0
    /\ nextTransitionID = 0
    /\ previousTransition = -1
    /\ transQ = <<>>
    /\ transErr = None
    /\ pushQ = <<>>
    /\ pushErr = None
    /\ nextSeq = 1
    /\ doneSeq = 0
    /\ calls = <<>>
    /\ commits = <<>>
    /\ sigs = <<>>

\* no callback is pending on either chain
Idle == transQ = <<>> /\ pushQ = <<>>

NextNav ==
    \/ Idle /\ \E a \in Activities : CallPush("push", a)
    \/ Idle /\ \E a \in Activities : CallPush("replace", a)
    \/ Idle /\ CallDirect("pop", None)
    \/ \E i \in 1..Len(transQ) : Begin(i)
    \/ \E i \in 1..Len(transQ) : RejectQueued(i)
    \/ \E i \in 1..Len(transQ) : HandlersDone(i)
    \/ \E i \in 1..Len(transQ) : Commit(i)
    \/ \E i \in 1..Len(transQ) : Continue(i)
    \/ \E j \in 1..Len(pushQ) : PreStep(j)
    \/ \E j \in 1..Len(pushQ) : AfterPopped(j)
    \/ \E j \in 1..Len(pushQ) : AfterUp(j)
    \/ \E j \in 1..Len(pushQ) : PushDone(j)
    \/ \E j \in 1..Len(pushQ) : PushFail(j)
    \/ \E j \in 1..Len(pushQ) : PushRejectQueued(j)

SpecNav == InitNav /\ [][NextNav]_vars

\* ================================================================== claims
Last(q) == q[Len(q)]

CallIds == 1..Len(calls)

\* the entries of the two chains that belong to call c
HasEntry(c) ==
    \/ \E i \in 1..Len(transQ) : transQ[i].call = c
    \/ \E j \in 1..Len(pushQ) : pushQ[j].call = c

\* an entry with a transition in progress (record created, not yet resolved or failed)
InFlight(e) == e.st \in {"suspending", "activating"}

\* an entry whose callback has started and has not finished
EntryStarted(e) == e.st # "queued"

\* the commit history of the steps owned by call c
CommitsOf(c) == SelectSeq(commits, LAMBDA x : x.t.call = c)

\* C1 - FIFO invariant: transitions commit in the order in which their work
\* reached the transition queue (arrival numbers never decrease along the
\* commit history) and the ids of the committed transitions strictly increase.
C1_Fifo ==
    \A m, n \in 1..Len(commits) :
        m < n => /\ commits[m].t.seq <= commits[n].t.seq
                 /\ commits[m].t.id < commits[n].t.id

\* C1 witness: a call issued later committed before a call issued earlier (its
\* work reached the transition queue first), and three transitions committed.
C1_Witness ==
    /\ Len(commits) >= 3
    /\ \E m, n \in 1..Len(commits) :
          m < n /\ commits[m].t.call > commits[n].t.call
                /\ commits[m].t.seq < commits[n].t.seq

\* C2 as stated - mutual exclusion per top-level call: no second transition is
\* in progress while one is, and no transition of another call commits between
\* two committed steps of one call.
C2_PerCall ==
    /\ Cardinality({i \in 1..Len(transQ) : EntryStarted(transQ[i])}) <= 1
    /\ \A m, k, n \in 1..Len(commits) :
          (m < k /\ k < n /\ commits[m].t.call = commits[n].t.call)
             => commits[k].t.call = commits[m].t.call

\* C2 amended - mutual exclusion per transition-queue entry: at most one entry
\* has started and not finished, so at most one transition is in progress, and
\* no transition of another entry commits between two committed steps of one
\* entry (the ancestors of one push/replace, the pops of one up).
C2_PerEntry ==
    /\ Cardinality({i \in 1..Len(transQ) : EntryStarted(transQ[i])}) <= 1
    /\ \A m, k, n \in 1..Len(commits) :
          (m < k /\ k < n /\ commits[m].t.seq = commits[n].t.seq)
             => commits[k].t.seq = commits[m].t.seq

\* C2 witness: a multi-step entry is between two of its steps (one committed,
\* the next in progress) while an entry of another call waits behind it.
C2_Witness ==
    /\ Len(transQ) >= 2
    /\ InFlight(transQ[1])
    /\ commits # <<>>
    /\ Last(commits).t.seq = transQ[1].seq
    /\ transQ[2].call # transQ[1].call

\* C3 as stated - no-duplicate invariant: no activity occurs at two distinct
\* indices of the stack array (active region and forward history alike).
C3_NoDuplicates ==
    \A i, j \in 1..Len(stack) : i # j => stack[i] # stack[j]

\* C3 amended - no activity occupies two adjacent indices of the stack array
\* (pushing the foreground is a no-op, replacing by the activity directly
\* beneath is a pop); an activity lying deeper in the stack can be pushed again.
C3_NoAdjacentDuplicates ==
    \A i \in 1..(Len(stack) - 1) : stack[i] # stack[i + 1]

\* C3 witness: the foreground activity also lies deeper in the stack, two slots
\* below, so the array holds it twice but not side by side.
C3_Witness ==
    /\ topIndex >= 2
    /\ At(stack, topIndex) = At(stack, topIndex - 2)

\* C4 as stated - push idempotence: a pushAsync(a) issued while a is the
\* foreground of an idle stack emits no signal at all and commits nothing but
\* no-op Push transitions, whatever a's options; once resolved it resolves to
\* a Push transition.
C4_PushIdempotent ==
    \A c \in CallIds :
        (calls[c].kind = "push" /\ calls[c].fg) =>
            /\ \A k \in 1..Len(sigs) : sigs[k].call # c
            /\ \A m \in 1..Len(commits) :
                  commits[m].t.call = c => commits[m].noop /\ commits[m].t.op = "Push"
            /\ calls[c].status = "resolved" => calls[c].res = "T"

\* C5 - futures never resolve early: a resolved call has no entry left on either
\* chain (every transition of it has committed); the future of a resolved
\* pushAsync(a)/replaceAsync(a) carries the call's last committed transition, and
\* right after that commit the foreground was a; a popAsync that resolved to a
\* transition resolved to its own last committed transition.
C5_NeverEarly ==
    \A c \in CallIds :
        calls[c].status = "resolved" =>
            /\ ~HasEntry(c)
            /\ calls[c].kind \in {"push", "replace"} =>
                  /\ CommitsOf(c) # <<>>
                  /\ Last(CommitsOf(c)).t.id = calls[c].resT
                  /\ Last(CommitsOf(c)).t.to = calls[c].arg
                  /\ Last(CommitsOf(c)).top = calls[c].arg
            /\ (calls[c].kind = "pop" /\ calls[c].res = "T") =>
                  /\ CommitsOf(c) # <<>>
                  /\ Last(CommitsOf(c)).t.id = calls[c].resT
            /\ calls[c].kind = "up" =>
                  calls[c].res \in Activities \cup {None}

\* C5 witness: a pushAsync that needed two transitions has resolved while another
\* call is still pending behind it.
C5_Witness ==
    \E c, d \in CallIds :
        /\ calls[c].kind = "push" /\ calls[c].status = "resolved"
        /\ Len(CommitsOf(c)) >= 2
        /\ calls[d].status = "pending"

\* the emissions of the newest transition, as <<signal, activity>> pairs
SigNames(q) == [k \in 1..Len(q) |-> <<q[k].sig, q[k].on>>]

\* the newest transition record has just committed with signals (not a no-op)
JustCommitted ==
    /\ commits # <<>>
    /\ ~Last(commits).noop
    /\ sigs # <<>>
    /\ Last(sigs).tid = Last(commits).t.id

\* C6 - signal ordering: a committed transition from a foreground `from` to an
\* activity `to` emitted exactly Suspending(from), Starting(to), Transition,
\* TransitionSync, Started(to), Resumed(to), Suspended(from) when `to` was new,
\* and the same with Resuming for Starting and without Started when `to` was
\* resumed; Transition was emitted on the unchanged stack, TransitionSync on the
\* changed one, and the Deactivated signals of the structural change lie
\* between the two.
C6_SignalOrder ==
    (JustCommitted /\ Last(commits).t.from # None /\ Last(commits).t.to # None) =>
        LET c == Last(commits)
            old == c.t.from
            new == c.t.to
            life == SelectSeq(sigs, LAMBDA x : x.sig # "Deactivated")
        IN /\ SigNames(life) =
                IF c.resuming
                THEN << <<"Suspending", old>>, <<"Resuming", new>>,
                        <<"Transition", None>>, <<"TransitionSync", None>>,
                        <<"Resumed", new>>, <<"Suspended", old>> >>
                ELSE << <<"Suspending", old>>, <<"Starting", new>>,
                        <<"Transition", None>>, <<"TransitionSync", None>>,
                        <<"Started", new>>, <<"Resumed", new>>,
                        <<"Suspended", old>> >>
           /\ \A k \in 1..Len(sigs) :
                 /\ sigs[k].sig = "Transition" => sigs[k].top = sigs[1].top
                 /\ sigs[k].sig = "TransitionSync" =>
                        sigs[k].top = topIndex /\ Top = new
                 /\ sigs[k].sig = "Deactivated" =>
                        /\ sigs[k - 1].sig \in {"Transition", "Deactivated"}
                        /\ sigs[k + 1].sig \in {"Deactivated", "TransitionSync"}

\* C6 witness: a brand-new activity was pushed onto a non-empty stack whose
\* forward history was truncated (a Deactivated was emitted in between).
C6_Witness ==
    /\ JustCommitted
    /\ Last(commits).t.op = "Push"
    /\ ~Last(commits).resuming
    /\ Last(commits).t.from # None
    /\ \E k \in 1..Len(sigs) : sigs[k].sig = "Deactivated"

\* entry i's callback runs in this step (it leaves the state "queued")
Runs(i) ==
    /\ transQ[i].st = "queued"
    /\ \A k \in 1..Len(transQ') :
          transQ'[k].seq = transQ[i].seq => transQ'[k].st # "queued"

\* entry i's transition is in progress and fails in this step by a handler veto
Vetoed(i) ==
    /\ InFlight(transQ[i])
    /\ transErr = None
    /\ transErr' = "veto"
    /\ \A k \in 1..Len(transQ') : transQ'[k].seq # transQ[i].seq

\* the step changes neither the array, the top index, the history ids, the
\* transition counter, the commit history nor the emitted signals
Untouched ==
    /\ stack' = stack
    /\ topIndex' = topIndex
    /\ historyIds' = historyIds
    /\ nextTransitionID' = nextTransitionID
    /\ commits' = commits
    /\ sigs' = sigs

\* C7 - handler veto: when a Suspending, Resuming or Starting handler of a
\* transition step fails, the step is rejected (its chain holds the rejection,
\* a popAsync/upAsync future is rejected at once) and changes nothing: array,
\* top index and history ids are as when the step began, which includes the
\* steps committed earlier; the step is not in the commit history and only
\* Suspending/Resuming/Starting were emitted for it.
C7_HandlerVeto ==
    [][ \A i \in 1..Len(transQ) :
          Vetoed(i) =>
            /\ stack' = transQ[i].pre.stack
            /\ topIndex' = transQ[i].pre.topIndex
            /\ historyIds' = transQ[i].pre.historyIds
            /\ commits' = commits
            /\ \A m \in 1..Len(commits) : commits[m].t.id # transQ[i].t.id
            /\ \A k \in 1..Len(sigs') :
                  sigs'[k].tid = transQ[i].t.id =>
                      sigs'[k].sig \in {"Suspending", "Resuming", "Starting"}
            /\ transQ[i].own =>
                  /\ calls'[transQ[i].call].status = "rejected"
                  /\ calls'[transQ[i].call].err = "veto"
      ]_vars

\* C7 witness: a pushAsync was rejected by a veto after an earlier Push step
\* of the same call had committed, and that step's activity is the foreground.
C7_Witness ==
    /\ transErr = "veto"
    /\ commits # <<>>
    /\ Last(commits).t.op = "Push"
    /\ Top = Last(commits).t.to
    /\ \E c \in CallIds :
          /\ calls[c].kind = "push"
          /\ calls[c].status = "rejected"
          /\ calls[c].err = "veto"
          /\ Last(commits).t.call = c

\* C8 as stated - the queue continues after a rejection: a rejection surfaces
\* only through the future of the call that produced it, so a rejected call is
\* a popAsync that found the stack empty or the call whose own transition was
\* vetoed (the newest transition record); no other call is rejected.
C8_QueueContinues ==
    \A c \in CallIds :
        calls[c].status = "rejected" =>
            \/ /\ calls[c].err = "No activity to suspend"
               /\ calls[c].kind = "pop"
               /\ topIndex < 0
            \/ /\ calls[c].err = "veto"
               /\ sigs # <<>>
               /\ Last(sigs).call = c

\* C9 - popAsync on an empty stack: when the queue step of a popAsync, with or
\* without an activity argument, runs while topIndex = -1, the call's future is
\* rejected with "No activity to suspend"; no transition record is created, no
\* signal is emitted, and array, top index and history ids are unchanged.
C9_PopEmpty ==
    [][ \A i \in 1..Len(transQ) :
          (transQ[i].kind = "pop" /\ transQ[i].own /\ transErr = None
           /\ topIndex < 0 /\ Runs(i)) =>
            /\ calls'[transQ[i].call].status = "rejected"
            /\ calls'[transQ[i].call].err = "No activity to suspend"
            /\ Untouched
            /\ topIndex' = -1
      ]_vars

\* C9 witness: a guarded popAsync(activity) failed with that error on a stack
\* that is empty although the array still holds forward history.
C9_Witness ==
    \E c \in CallIds :
        /\ calls[c].kind = "pop" /\ calls[c].arg # None
        /\ calls[c].status = "rejected"
        /\ calls[c].err = "No activity to suspend"
        /\ topIndex = -1
        /\ Len(stack) > 0

\* C10 - pop-guarded no-op: when the queue step of popAsync(activity) runs on a
\* non-empty stack whose foreground is not that activity, the call resolves to
\* undefined; no transition record is created, no signal is emitted, and array,
\* top index and history ids are unchanged.
C10_GuardedNoop ==
    [][ \A i \in 1..Len(transQ) :
          (transQ[i].kind = "pop" /\ transQ[i].own /\ transErr = None
           /\ transQ[i].arg # None /\ topIndex >= 0 /\ Top # transQ[i].arg
           /\ Runs(i)) =>
            /\ calls'[transQ[i].call].status = "resolved"
            /\ calls'[transQ[i].call].res = "undefined"
            /\ calls'[transQ[i].call].resT = -1
            /\ Untouched
      ]_vars

\* C10 witness: a guarded popAsync resolved to undefined on a non-empty stack
\* that holds its activity below the foreground.
C10_Witness ==
    \E c \in CallIds :
        /\ calls[c].kind = "pop"
        /\ calls[c].status = "resolved"
        /\ calls[c].res = "undefined"
        /\ topIndex >= 1
        /\ Contains(calls[c].arg)

\* C11 as stated - every transition record of a successful operation has a
\* `to` activity: no committed transition lacks it.
C11_ToPresent ==
    \A m \in 1..Len(commits) : commits[m].t.to # None

\* C11 amended - the `to` of a Pop in progress is the activity immediately
\* beneath the foreground and its `from` is the foreground; a Push or Replace
\* always has a `to`; a committed transition lacks `to` exactly when it is the
\* Pop of a popAsync that removed the only active activity and left the stack
\* empty.
C11_ToBeneath ==
    /\ \A i \in 1..Len(transQ) :
          InFlight(transQ[i]) =>
             IF transQ[i].t.op = "Pop"
             THEN /\ transQ[i].t.to = At(stack, topIndex - 1)
                  /\ transQ[i].t.from = Top
                  /\ transQ[i].t.from # None
                  /\ (transQ[i].t.to = None) = (topIndex = 0)
             ELSE transQ[i].t.to # None
    /\ \A m \in 1..Len(commits) :
          /\ commits[m].t.to = None =>
                /\ commits[m].t.op = "Pop"
                /\ calls[commits[m].t.call].kind = "pop"
                /\ commits[m].t.from # None
                /\ ~commits[m].noop
          /\ commits[m].t.op = "Pop" =>
                /\ commits[m].top = commits[m].t.to
                /\ commits[m].t.from # commits[m].t.to

\* C11 witness: a popAsync on a stack of length 1 resolved to its committed Pop
\* transition, whose `to` is absent; the stack is empty and the array keeps
\* the popped activity as forward history.
C11_Witness ==
    /\ commits # <<>>
    /\ Last(commits).t.op = "Pop"
    /\ Last(commits).t.to = None
    /\ topIndex = -1
    /\ Len(stack) = 1
    /\ calls[Last(commits).t.call].status = "resolved"
    /\ calls[Last(commits).t.call].resT = Last(commits).t.id

\* C12 as stated - replace-as-pop equivalence: a replaceAsync(X) issued while X
\* lies directly beneath the foreground Y of an idle stack, and followed by no
\* other call, commits nothing but one Pop from Y to X; no Replace or Push
\* record is produced for it, and once it has resolved X is the foreground.
C12_ReplaceAsPop ==
    \A c \in CallIds :
        (calls[c].below /\ c = Len(calls)) =>
            /\ Len(CommitsOf(c)) <= 1
            /\ \A m \in 1..Len(commits) :
                  commits[m].t.call = c =>
                      /\ commits[m].t.op = "Pop"
                      /\ commits[m].t.to = calls[c].arg
                      /\ ~commits[m].noop
            /\ calls[c].status = "resolved" =>
                  /\ Len(CommitsOf(c)) = 1
                  /\ Top = calls[c].arg

\* the commit history of the transition-queue entry numbered s
EntryCommits(s) == SelectSeq(commits, LAMBDA x : x.t.seq = s)

\* the `to` activities of a piece of commit history
Tos(q) == [k \in 1..Len(q) |-> q[k].t.to]

PopSignals(old, new) ==
    << <<"Suspending", old>>, <<"Resuming", new>>, <<"Transition", None>>,
       <<"TransitionSync", None>>, <<"Resumed", new>>, <<"Suspended", old>> >>

\* a committed pop of an upAsync(x): a signalled Pop that resumed the activity
\* beneath a foreground that did not match x
UpPop(c, x) ==
    /\ c.t.op = "Pop"
    /\ ~c.noop
    /\ c.resuming
    /\ c.t.to # None
    /\ c.top = c.t.to
    /\ ~Matches(c.t.from, x)

\* C14 - upAsync success: an upAsync(target), target an activity or a class,
\* pops only while the active region holds a match below the foreground, one
\* entry at a time (each `to` is the entry directly beneath); every pop is a
\* Pop transition that emitted exactly Suspending, Resuming, Transition,
\* TransitionSync, Resumed, Suspended; no popped entry matched the target, so
\* nothing at or below the matched position is popped; the call resolves to the
\* matching foreground its last pop uncovered (or found at once), and it
\* resolves to undefined after a pop only when it reached its pop limit.
C14_UpSuccess ==
    /\ \A i \in 1..Len(transQ) :
          LET e == transQ[i]
              done == EntryCommits(e.seq)
          IN (e.kind = "up" /\ EntryStarted(e)) =>
                /\ ContainsTarget(e.arg)
                /\ e.count = Len(done) + (IF InFlight(e) THEN 1 ELSE 0)
                /\ \A k \in 1..Len(done) : UpPop(done[k], e.arg)
                /\ InFlight(e) =>
                      /\ ~Matches(Top, e.arg)
                      /\ e.t.op = "Pop"
                      /\ e.t.to = At(stack, topIndex - 1)
                      /\ e.t.to # None
                      /\ e.resuming
    /\ \A c \in CallIds :
          (calls[c].kind = "up" /\ calls[c].status = "resolved") =>
              LET done == CommitsOf(c) IN
              /\ \A k \in 1..Len(done) : UpPop(done[k], calls[c].arg)
              /\ calls[c].res # None =>
                    /\ Matches(calls[c].res, calls[c].arg)
                    /\ done # <<>> => Last(done).top = calls[c].res
              /\ calls[c].res = None => (done = <<>> \/ Len(done) = upLimit)
    /\ (JustCommitted /\ calls[Last(commits).t.call].kind = "up") =>
          SigNames(sigs) = PopSignals(Last(commits).t.from, Last(commits).t.to)

\* C14 witness: upAsync(K2), a class, popped the foreground a3 and resolved to
\* a2, the instance of K2 that lay beneath it.
C14_Witness ==
    \E c \in CallIds :
        /\ calls[c].kind = "up" /\ calls[c].arg = "K2"
        /\ calls[c].status = "resolved"
        /\ calls[c].res = "a2"
        /\ Len(CommitsOf(c)) = 1
        /\ Last(CommitsOf(c)).t.from = "a3"
        /\ Top = "a2"

\* the calls that may be issued: a bound on the quantifier of C15
MayCall == 1..MaxCalls

\* the future of call c, an upAsync, is still pending
UpPending(c) ==
    c \in CallIds /\ calls[c].kind = "up" /\ calls[c].status = "pending"

C16_HistoryPosition ==
    /\ \A j \in 0..(Len(historyIds) - 1) :
          GetHistoryPosition(historyIds[j + 1]) =
              IF j = topIndex THEN <<0>>
              ELSE IF j < topIndex THEN <<-1>> ELSE <<1>>
    /\ \A id \in 0..nextHistoryId :
          (GetHistoryPosition(id) = <<>>) <=>
              (\A j \in 1..Len(historyIds) : historyIds[j] # id)

\* C16 witness: on an array of three slots with the middle one in the
\* foreground the query answers -1, 0 and 1 for the three ids and undefined
\* for an unknown id.
C16_Witness ==
    /\ Len(stack) = 3
    /\ topIndex = 1
    /\ GetHistoryPosition(historyIds[1]) = <<-1>>
    /\ GetHistoryPosition(historyIds[2]) = <<0>>
    /\ GetHistoryPosition(historyIds[3]) = <<1>>
    /\ GetHistoryPosition(nextHistoryId) = <<>>

\* C17 - the history ids are exactly as many as the stack array is long,
\* forward history included, and every slot has an id.
C17_HistoryLength ==
    /\ Len(historyIds) = Len(stack)
    /\ \A j \in 1..Len(historyIds) : historyIds[j] >= 0

\* C17 witness: a push has cut back forward history or a replace has
\* overwritten a slot: more ids were minted than the array of two or more
\* slots now holds.
C17_Witness ==
    /\ Len(stack) >= 2
    /\ nextHistoryId > Len(historyIds)
    /\ Len(historyIds) = Len(stack)

\* C18 - topIndex stays within -1 .. stack.length - 1: `top` is absent exactly
\* when topIndex = -1 and is the array element at topIndex otherwise, and
\* `length` = topIndex + 1 is never negative.
C18_TopIndexRange ==
    /\ -1 <= topIndex
    /\ topIndex <= Len(stack) - 1
    /\ (Top = None) <=> (topIndex = -1)
    /\ topIndex >= 0 => (Top = stack[topIndex + 1] /\ Top \in Activities)
    /\ topIndex + 1 >= 0

\* C18 witness: a Replace has just committed on a stack of one element, which
\* took topIndex to -1 and back to 0.
C18_Witness ==
    /\ JustCommitted
    /\ Last(commits).t.op = "Replace"
    /\ Last(commits).t.from # None
    /\ Len(stack) = 1
    /\ topIndex = 0

\* C19 - query methods are read-only: a step that creates, clones, reads or
\* moves a cursor leaves the stack array, topIndex and the history ids
\* unchanged, emits no signal and touches neither queue; creating or cloning
\* leaves every existing cursor where it is, and moving or reading one cursor
\* moves no other, so a clone and the cursor it was cloned from move
\* independently; the array, topIndex and the history ids change only in a
\* step of the transition queue.
C19_ReadOnly ==
    [][ /\ cursors' # cursors =>
              /\ UNCHANGED <<stack, topIndex, historyIds, nextHistoryId,
                             nextTransitionID, previousTransition, transQ, transErr,
                             pushQ, pushErr, calls, commits, sigs>>
              /\ \/ /\ Len(cursors') = Len(cursors) + 1
                    /\ \A k \in 1..Len(cursors) : cursors'[k] = cursors[k]
                 \/ /\ Len(cursors') = Len(cursors)
                    /\ Cardinality({k \in 1..Len(cursors) :
                                       cursors'[k] # cursors[k]}) = 1
        /\ (stack' # stack \/ topIndex' # topIndex \/ historyIds' # historyIds) =>
              /\ cursors' = cursors
              /\ transQ # <<>>
              /\ transQ' # transQ
      ]_vars

\* C19 witness: two cursors on the stack [a1, a2, a3]: one still at the
\* foreground, the other moved down to a1.
C19_Witness ==
    /\ stack = <<"a1", "a2", "a3">>
    /\ topIndex = 2
    /\ cursors = <<2, 0>>
    /\ transQ = <<>> /\ pushQ = <<>>

\* the transition records created so far and not vetoed, in creation order:
\* the committed ones and the one in progress
Records ==
    LET flying == SelectSeq(transQ, InFlight) IN
    [k \in 1..Len(commits) |-> commits[k].t]
    \o [k \in 1..Len(flying) |-> flying[k].t]

\* the id of the record created last before record n of recs among those with
\* the same owner (own[k] names the owner of record k), found by scanning back
\* from record m; -1 when n is the owner's first
RECURSIVE PrecedingFrom(_, _, _, _)
PrecedingFrom(recs, own, n, m) ==
    IF m < 1 THEN -1
    ELSE IF own[m] = own[n] THEN recs[m].id
    ELSE PrecedingFrom(recs, own, n, m - 1)

Preceding(recs, own, n) == PrecedingFrom(recs, own, n, n - 1)

\* C20 as stated - previous-chain per top-level call: the first record created
\* for a call has `previous` absent and every later record of the call has
\* `previous` equal to the record created immediately before it in that call.
C20_PerCall ==
    LET recs == Records
        own == [k \in 1..Len(recs) |-> recs[k].call]
    IN \A n \in 1..Len(recs) : recs[n].previous = Preceding(recs, own, n)

\* C20 amended - previous-chain per transition-queue step: the first record
\* created by a step (a popAsync, an upAsync - called directly or by the
\* transient/hub/root walk of a push or replace -, the main step of a pushAsync
\* or replaceAsync) has `previous` absent, and every later record of the step
\* (further ancestors, further pops) has `previous` equal to the record created
\* immediately before it in that step.
C20_PerStep ==
    LET recs == Records
        own == [k \in 1..Len(recs) |-> recs[k].seq]
    IN \A n \in 1..Len(recs) : recs[n].previous = Preceding(recs, own, n)

\* C20 witness: a pushAsync whose walk to a root or hub popped twice (the
\* second Pop chained to the first) and whose main step then created a record
\* with `previous` absent.
C20_Witness ==
    \E m \in 2..(Len(commits) - 1) :
        /\ commits[m].t.call = commits[m + 1].t.call
        /\ commits[m].t.seq # commits[m + 1].t.seq
        /\ commits[m].t.op = "Pop"
        /\ commits[m].t.previous = commits[m - 1].t.id
        /\ commits[m + 1].t.previous = -1
        /\ calls[commits[m].t.call].kind = "push"

\* the future of call c has resolved
Resolved(c) == c \in CallIds /\ calls[c].status = "resolved"

\* some call has been rejected (a popAsync on an empty stack, and every call
\* chained behind it)
SomeRejected == \E d \in CallIds : calls[d].status = "rejected"

\* C21 - liveness: when the promises of all Suspending, Resuming and Starting
\* handlers resolve and the scheduler is fair, the future of every pushAsync,
\* replaceAsync, popAsync and upAsync that was issued resolves, unless a call
\* is rejected: time and again a moment comes at which every call issued so
\* far has resolved, so the two chains never wait for each other, also when
\* the pre-step of a push chains an upAsync; and as long as the handlers of a
\* transition in progress have not settled, no other transition record is
\* created, nothing commits, no signal is emitted and the stack stays as it is.
C21_Liveness ==
    /\ []<>(SomeRejected \/ \A c \in CallIds : Resolved(c))
    /\ [][ \A i \in 1..Len(transQ) :
              (/\ InFlight(transQ[i])
               /\ i <= Len(transQ')
               /\ transQ'[i].seq = transQ[i].seq
               /\ transQ'[i].st = transQ[i].st) =>
                  UNCHANGED <<stack, topIndex, historyIds, nextHistoryId,
                              nextTransitionID, previousTransition, commits,
                              sigs, doneSeq>>
       ]_vars

\* C21 witness: three calls have resolved and none was rejected; one of them is
\* a pushAsync whose pre-step walked up with two Pop transitions (its transient
\* pop and its hub walk) before its own Push, another is of a different kind.
C21_Witness ==
    /\ Len(calls) >= 3
    /\ \A c \in CallIds : calls[c].status = "resolved"
    /\ \E c \in CallIds :
          /\ calls[c].kind = "push"
          /\ Len(SelectSeq(CommitsOf(c), LAMBDA x : x.t.op = "Pop")) >= 2
    /\ \E c \in CallIds : calls[c].kind # "push"

\* the kinds of call that go through _pushP first, and those chained on
\* _transitionP at once
ViaPush == {"push", "replace"}

Direct == {"pop", "up"}

\* the main step of a pushAsync/replaceAsync call d is among the entries of q
HasMain(q, d) ==
    \E k \in 1..Len(q) : q[k].call = d /\ q[k].kind \in ViaPush

\* C22 - ordering follows arrival at the transition queue, not call order.
\* (1) A popAsync or upAsync is chained on _transitionP in the call itself, so
\* it stands there before the main step of every pushAsync/replaceAsync whose
\* pre-step has not finished.  (2) When such a pre-step finishes, the main step
\* is chained behind everything in the queue, the pending popAsync/upAsync
\* calls issued since included.  (3) When a main step runs, every entry that
\* arrived before it has left the queue and every commit so far belongs to an
\* earlier arrival: those calls committed before the push/replace's
\* transition.  (4) The pre-step of a pushAsync/replaceAsync starts only when
\* every earlier pushAsync/replaceAsync has settled and left both chains.
\* (5) So the transitions of pushAsync/replaceAsync calls commit in call order.
C22_ArrivalOrder ==
    /\ [][ /\ (Len(calls') = Len(calls) + 1 /\ calls'[Len(calls')].kind \in Direct) =>
                 /\ Len(transQ') = Len(transQ) + 1
                 /\ transQ'[Len(transQ')].call = Len(calls')
                 /\ transQ'[Len(transQ')].own
                 /\ transQ'[Len(transQ')].seq = nextSeq
                 /\ \A k \in 1..Len(transQ) : transQ[k].seq < nextSeq
                 /\ \A j \in 1..Len(pushQ) :
                       pushQ[j].st # "main" => ~HasMain(transQ', pushQ[j].call)
           /\ \A j \in 1..Len(pushQ) :
                 (/\ pushQ[j].st # "main"
                  /\ j <= Len(pushQ')
                  /\ pushQ'[j].call = pushQ[j].call
                  /\ pushQ'[j].st = "main") =>
                     /\ ~HasMain(transQ, pushQ[j].call)
                     /\ Len(transQ') = Len(transQ) + 1
                     /\ transQ'[Len(transQ')].call = pushQ[j].call
                     /\ transQ'[Len(transQ')].kind = calls[pushQ[j].call].kind
                     /\ \A k \in 1..Len(transQ) :
                           /\ transQ'[k] = transQ[k]
                           /\ transQ[k].seq < transQ'[Len(transQ')].seq
                     /\ \A c \in CallIds :
                           (/\ c > pushQ[j].call
                            /\ calls[c].kind \in Direct
                            /\ calls[c].status = "pending") =>
                               \E k \in 1..Len(transQ) :
                                   transQ[k].call = c /\ transQ[k].own
           /\ \A i \in 1..Len(transQ) :
                 (/\ transQ[i].kind \in ViaPush
                  /\ transQ[i].st = "queued"
                  /\ transQ' # transQ
                  /\ \A k \in 1..Len(transQ') : transQ'[k] # transQ[i]) =>
                     /\ i = 1
                     /\ \A m \in 1..Len(commits) :
                           commits[m].t.seq < transQ[i].seq
                     /\ \A c \in CallIds :
                           (calls[c].kind \in Direct /\ calls[c].status = "pending") =>
                               \E k \in 2..Len(transQ) : transQ[k].call = c
           /\ \A j \in 1..Len(pushQ) :
                 (/\ pushQ[j].st = "queued"
                  /\ j <= Len(pushQ')
                  /\ pushQ'[j].call = pushQ[j].call
                  /\ pushQ'[j].st # "queued") =>
                     /\ j = 1
                     /\ \A d \in 1..(pushQ[j].call - 1) :
                           calls[d].kind \in ViaPush =>
                              /\ calls[d].status # "pending"
                              /\ \A k \in 1..Len(transQ) : transQ[k].call # d
         ]_vars
    /\ [](\A m, n \in 1..Len(commits) :
            (/\ m < n
             /\ calls[commits[m].t.call].kind \in ViaPush
             /\ calls[commits[n].t.call].kind \in ViaPush) =>
                commits[m].t.call <= commits[n].t.call)

\* C22 witness: a popAsync issued after a pushAsync committed its Pop before
\* the pushAsync committed its Push, and a second pushAsync committed after the
\* first.
C22_Witness ==
    \E m, n \in 1..Len(commits) :
        /\ m < n
        /\ commits[m].t.call > commits[n].t.call
        /\ calls[commits[m].t.call].kind = "pop"
        /\ calls[commits[n].t.call].kind = "push"
        /\ commits[m].t.op = "Pop"
        /\ commits[n].t.op = "Push"
        /\ ~commits[m].noop /\ ~commits[n].noop
        /\ \E d \in CallIds :
              d < commits[n].t.call /\ calls[d].kind \in ViaPush

\* the positions in sigs of the emissions of the signal called name
Positions(name) == {k \in 1..Len(sigs) : sigs[k].sig = name}

\* C23 - commit atomicity as the two transition signals see it: a transition
\* that went through its handlers emits Transition once and TransitionSync once
\* after it; Transition is emitted on the stack as it was when the record was
\* created (same topIndex, foreground = t.from), after Suspending and
\* Resuming/Starting; TransitionSync is emitted when the change is complete
\* (topIndex has its final value, the foreground is t.to, there is one history
\* id per slot and a pushed slot carries the newest id), before Started,
\* Resumed and Suspended, and while the future of the call is still pending.
C23_CommitAtomicity ==
    \A i \in 1..Len(transQ) :
        LET e == transQ[i] IN
        (e.st = "settled" /\ sigs # <<>> /\ sigs[Len(sigs)].tid = e.t.id) =>
            /\ Cardinality(Positions("Transition")) = 1
            /\ Cardinality(Positions("TransitionSync")) = 1
            /\ \A tr \in Positions("Transition"), ts \in Positions("TransitionSync") :
                  /\ tr < ts
                  /\ sigs[tr].top = e.pre.topIndex
                  /\ At(e.pre.stack, sigs[tr].top) = e.t.from
                  /\ sigs[ts].top = topIndex
                  /\ Top = e.t.to
                  /\ Len(historyIds) = Len(stack)
                  /\ (e.t.op # "Pop" /\ stack # e.pre.stack) =>
                        /\ historyIds[topIndex + 1] = nextHistoryId - 1
                        /\ \A h \in 1..Len(e.pre.historyIds) :
                              e.pre.historyIds[h] < nextHistoryId - 1
                  /\ \A k \in 1..Len(sigs) :
                        /\ sigs[k].tid = e.t.id
                        /\ sigs[k].sig \in {"Suspending", "Resuming", "Starting"} => k < tr
                        /\ sigs[k].sig \in {"Started", "Resumed", "Suspended"} =>
                              k > ts /\ sigs[k].top = topIndex
            /\ calls[e.call].status = "pending"

\* C23 witness: a Replace has just committed on a stack with forward history:
\* Transition was emitted at the old top index, a Deactivated followed, and
\* TransitionSync was emitted on the changed array; the call is still pending.
C23_Witness ==
    /\ transQ # <<>>
    /\ transQ[1].st = "settled"
    /\ transQ[1].t.op = "Replace"
    /\ Positions("TransitionSync") # {}
    /\ Positions("Deactivated") # {}
    /\ stack # transQ[1].pre.stack
    /\ calls[transQ[1].call].status = "pending"

\* how many times the signal called name was emitted on activity a
Emitted(name, a) == Cardinality({k \in Positions(name) : sigs[k].on = a})

\* C24 - start versus resume: a transition with a `to` that is not a no-op and
\* whose Suspending handlers resolved emits exactly one of Resuming and
\* Starting, on `to`: Resuming when `to` was in the active region (0..topIndex)
\* as the record was created, Starting otherwise; once it has committed,
\* Started was emitted on `to` exactly if Starting was, and Resumed once in
\* either case; none of the four is emitted on another activity, and none
\* before the Suspending handlers resolved.  So every Pop with a `to` is a
\* resume: it emits Resuming and Resumed, never Starting or Started.
C24_StartOrResume ==
    /\ \A i \in 1..Len(transQ) :
          LET e == transQ[i]
              was == ContainsIn(e.pre.stack, e.pre.topIndex, e.t.to)
              one == IF e.st = "suspending" THEN 0 ELSE 1
              done == IF e.st = "settled" THEN 1 ELSE 0
          IN (/\ e.st \in {"suspending", "activating", "settled"}
              /\ e.t.to # None
              /\ (e.st = "settled" => sigs # <<>> /\ sigs[Len(sigs)].tid = e.t.id)) =>
                /\ e.resuming = was
                /\ e.t.op = "Pop" => was
                /\ Emitted("Resuming", e.t.to) = (IF was THEN one ELSE 0)
                /\ Emitted("Starting", e.t.to) = (IF was THEN 0 ELSE one)
                /\ Emitted("Started", e.t.to) = (IF was THEN 0 ELSE done)
                /\ Emitted("Resumed", e.t.to) = done
                /\ \A k \in 1..Len(sigs) :
                      sigs[k].sig \in {"Resuming", "Starting", "Started", "Resumed"} =>
                         sigs[k].on = e.t.to
    /\ \A m \in 1..Len(commits) :
          (commits[m].t.op = "Pop" /\ commits[m].t.to # None /\ ~commits[m].noop) =>
              commits[m].resuming

\* C24 witness: a Push or Replace whose `to` already lay in the active region
\* has committed as a resume (Resuming and Resumed, no Started), and before it
\* a Push committed as a start.
C24_Witness ==
    /\ transQ # <<>>
    /\ transQ[1].st = "settled"
    /\ transQ[1].t.op \in {"Push", "Replace"}
    /\ transQ[1].resuming
    /\ Emitted("Resuming", transQ[1].t.to) = 1
    /\ Emitted("Resumed", transQ[1].t.to) = 1
    /\ Emitted("Started", transQ[1].t.to) = 0
    /\ \E m \in 1..Len(commits) :
          commits[m].t.op = "Push" /\ ~commits[m].noop /\ ~commits[m].resuming

\* this step is the commit block of a transition that went through its
\* handlers: a record is added to the commit history without the short circuit
CommitStep == Len(commits') = Len(commits) + 1 /\ ~commits'[Len(commits')].noop

\* the record committed by this step
CommittedT == commits'[Len(commits')].t

\* the activities sent Deactivated by this step, in emission order
Deactivations ==
    LET d == SelectSeq(sigs', LAMBDA x : x.sig = "Deactivated")
    IN [k \in 1..Len(d) |-> d[k].on]

\* C25 - redo push: the commit of a Push whose `to` is the activity in the slot
\* directly above the foreground only raises topIndex by one: the array and
\* the history ids are as before (the slot keeps its id, the forward entries
\* further up stay), no id is minted, no Deactivated is emitted, and `to` is
\* the foreground.
C25_RedoPush ==
    [][ (/\ CommitStep
         /\ CommittedT.op = "Push"
         /\ At(stack, topIndex + 1) = CommittedT.to) =>
            /\ topIndex' = topIndex + 1
            /\ stack' = stack
            /\ historyIds' = historyIds
            /\ nextHistoryId' = nextHistoryId
            /\ Deactivations = <<>>
            /\ At(stack', topIndex') = CommittedT.to
      ]_vars

\* C25 witness: a Push has just re-entered the forward-history slot above the
\* foreground; the array is as it was, with a further forward entry above the
\* new foreground.
C25_Witness ==
    /\ transQ # <<>>
    /\ transQ[1].st = "settled"
    /\ transQ[1].t.op = "Push"
    /\ sigs # <<>>
    /\ transQ[1].pre.stack = stack
    /\ transQ[1].pre.historyIds = historyIds
    /\ transQ[1].pre.topIndex = topIndex - 1
    /\ Len(stack) > topIndex + 1

\* how many elements of the sequence q are equal to a
Count(q, a) == Cardinality({k \in 1..Len(q) : q[k] = a})

\* C26 - truncation on push: the commit of a Push or Replace that does not
\* re-enter the forward history keeps the slots up to topIndex (less one for a
\* Replace), removes every slot above, and appends `to` as the new foreground
\* with a newly minted history id; the kept slots keep their ids.  Deactivated
\* is emitted once per removed slot whose activity is in none of the kept
\* slots, on that activity, and on nothing else: not on an activity that is
\* still present below, not on an activity whose slot was not removed.
C26_Truncation ==
    [][ LET t == CommittedT
            keep == IF t.op = "Replace" THEN topIndex ELSE topIndex + 1
            kept == SubSeq(stack, 1, keep)
            removed == SubSeq(stack, keep + 1, Len(stack))
        IN (/\ CommitStep
            /\ t.op \in {"Push", "Replace"}
            /\ At(stack, keep) # t.to) =>
               /\ keep >= 0
               /\ stack' = Append(kept, t.to)
               /\ topIndex' = keep
               /\ historyIds' = Append(SubSeq(historyIds, 1, keep), nextHistoryId)
               /\ nextHistoryId' = nextHistoryId + 1
               /\ \A h \in 1..Len(historyIds) : historyIds[h] < nextHistoryId
               /\ \A a \in Activities :
                     Count(Deactivations, a) =
                        IF Count(kept, a) > 0 THEN 0 ELSE Count(removed, a)
      ]_vars

\* C26 witness: a Replace has just committed that removed its old foreground
\* from the array without a Deactivated, because the same activity is still
\* present below; the new foreground is a different activity with the newest
\* history id.
C26_Witness ==
    /\ transQ # <<>>
    /\ transQ[1].st = "settled"
    /\ transQ[1].t.op = "Replace"
    /\ sigs # <<>>
    /\ Positions("Deactivated") = {}
    /\ ContainsIn(stack, topIndex - 1, transQ[1].t.from)
    /\ Top = transQ[1].t.to
    /\ historyIds[topIndex + 1] = nextHistoryId - 1

\* the activity a is neither the foreground of the snapshot w nor directly
\* beneath it
Far(w, a) ==
    /\ At(w.stack, w.topIndex) # a
    /\ At(w.stack, w.topIndex - 1) # a

\* the ops of a piece of commit history
Ops(q) == [k \in 1..Len(q) |-> q[k].t.op]

C28_PopFrame ==
    [][ (CommitStep /\ CommittedT.op = "Pop") =>
           LET popped == At(stack, topIndex)
               id == historyIds[topIndex + 1]
           IN /\ topIndex >= 0
              /\ popped = CommittedT.from
              /\ topIndex' = topIndex - 1
              /\ stack' = stack
              /\ historyIds' = historyIds
              /\ nextHistoryId' = nextHistoryId
              /\ Deactivations = <<>>
              /\ Peek' = popped
              /\ \A a \in Activities : a = popped =>
                    Contains(a)' = (\E k \in 0..(topIndex - 1) : At(stack, k) = a)
              /\ GetHistoryPosition(id) = <<0>>
              /\ \A h \in 0..nextHistoryId : h = id =>
                    GetHistoryPosition(h)' = <<1>>
      ]_vars

\* C28 witness: a Pop has just been committed from a stack of two or more
\* entries: the popped activity is in the first forward slot, no longer
\* contained, its signals are those of the Pop, and the revealed activity is
\* the foreground.
C28_Witness ==
    /\ commits # <<>>
    /\ ~commits[Len(commits)].noop
    /\ commits[Len(commits)].t.op = "Pop"
    /\ commits[Len(commits)].t.to = Top
    /\ topIndex >= 0
    /\ Len(stack) = topIndex + 2
    /\ Peek = commits[Len(commits)].t.from
    /\ ~Contains(Peek)
    /\ GetHistoryPosition(historyIds[topIndex + 2]) = <<1>>
    /\ \E k \in 1..Len(sigs) : sigs[k].sig = "Suspended" /\ sigs[k].on = Peek

\* the index of the topmost occurrence of a in the active region of the
\* snapshot w, -1 if there is none
RECURSIVE TopmostFrom(_, _, _)
TopmostFrom(w, a, i) ==
    IF i < 0 THEN -1
    ELSE IF At(w.stack, i) = a THEN i
    ELSE TopmostFrom(w, a, i - 1)

\* call c is a pushAsync/replaceAsync of a root activity without declared
\* parent that lay in the active region below the foreground at the call
RootCollapse(c) ==
    /\ calls[c].kind \in ViaPush
    /\ options[calls[c].arg].isRootActivity
    /\ options[calls[c].arg].parentActivity = None
    /\ At(calls[c].at.stack, calls[c].at.topIndex) # calls[c].arg
    /\ TopmostFrom(calls[c].at, calls[c].arg, calls[c].at.topIndex - 1) >= 0

\* C29 - root collapse: pushAsync(R) or replaceAsync(R) of a root activity R
\* without declared parent that is in the active region below the foreground
\* walks up to R with Pop transitions only, one for every entry above R; no
\* Push or Replace of the call goes through its handlers (the main step leaves
\* one short-circuit record for R).  When the call has resolved the foreground
\* is R, length is R's index + 1, and the array and the history ids are those
\* of the call: the entries that were above R are the forward history.
C29_RootCollapse ==
    \A c \in CallIds :
        RootCollapse(c) =>
            LET R == calls[c].arg
                was == calls[c].at
                idx == TopmostFrom(was, R, was.topIndex)
                done == CommitsOf(c)
            IN /\ \A k \in 1..Len(done) :
                     \/ /\ done[k].t.op = "Pop"
                        /\ ~done[k].noop
                        /\ k <= was.topIndex - idx
                        /\ done[k].t.from = At(was.stack, was.topIndex - k + 1)
                        /\ done[k].t.to = At(was.stack, was.topIndex - k)
                     \/ /\ done[k].noop
                        /\ done[k].t.op = (IF calls[c].kind = "push" THEN "Push" ELSE "Replace")
                        /\ done[k].t.to = R
                        /\ k = was.topIndex - idx + 1
               /\ Len(done) <= was.topIndex - idx + 1
               /\ c = Len(calls) => stack = was.stack /\ historyIds = was.historyIds
               /\ (c = Len(calls) /\ calls[c].status = "resolved") =>
                     /\ Len(done) = was.topIndex - idx + 1
                     /\ Top = R
                     /\ topIndex = idx
                     /\ Length = idx + 1
                     /\ \A k \in (idx + 1)..was.topIndex : At(stack, k) = At(was.stack, k)

\* C29 witness: a pushAsync/replaceAsync of a root activity that lay two or
\* more entries below the foreground has resolved: the foreground is the root
\* and the entries that were above it are still in the array.
C29_Witness ==
    \E c \in CallIds :
        /\ RootCollapse(c)
        /\ c = Len(calls)
        /\ calls[c].status = "resolved"
        /\ calls[c].at.topIndex >= topIndex + 2
        /\ Top = calls[c].arg
        /\ Len(stack) = calls[c].at.topIndex + 1
        /\ Peek # None

\* call c is a pushAsync(C) where C declares a hub activity as its parent, the
\* hub lay in the active region at the call and C did not
HubPass(c) ==
    /\ calls[c].kind = "push"
    /\ options[calls[c].arg].parentActivity \in Activities
    /\ options[options[calls[c].arg].parentActivity].isHubActivity
    /\ TopmostFrom(calls[c].at, options[calls[c].arg].parentActivity,
                   calls[c].at.topIndex) >= 0
    /\ ~ContainsIn(calls[c].at.stack, calls[c].at.topIndex, calls[c].arg)

\* the activities in the slots from..to (0-based) of the array s
Slots(s, from, to) == {At(s, k) : k \in from..to}

RECURSIVE NonTransientFrom(_, _)
NonTransientFrom(w, i) ==
    IF i < 0 THEN -1
    ELSE IF ~options[At(w.stack, i)].isTransient THEN i
    ELSE NonTransientFrom(w, i - 1)

\* call c is a pushAsync/replaceAsync issued while the foreground is transient
OnTransient(c) ==
    /\ calls[c].kind \in ViaPush
    /\ calls[c].at.topIndex >= 0
    /\ options[At(calls[c].at.stack, calls[c].at.topIndex)].isTransient

\* the root or hub activity the walk of a pushAsync/replaceAsync(a) issued on
\* the snapshot w goes up to, None if there is none
WalkTargetAt(w, a) ==
    IF options[a].isRootActivity /\ ContainsIn(w.stack, w.topIndex, a) THEN a
    ELSE IF options[a].parentActivity \in Activities
            /\ options[options[a].parentActivity].isHubActivity
         THEN options[a].parentActivity
         ELSE None

\* commit k of the history q is the pop of slot i of the snapshot w
PopOf(q, k, w, i) ==
    /\ q[k].t.op = "Pop"
    /\ ~q[k].noop
    /\ q[k].t.from = At(w.stack, i)
    /\ q[k].t.to = At(w.stack, i - 1)

\* C31 as stated - transient removal: a pushAsync/replaceAsync called while the
\* foreground is transient and a non-transient N lies below the run of
\* transient entries first pops that run down to N, and the first Push or
\* Replace transition of the call has from = N; when every entry is transient
\* the call pops nothing.
C31_FromN ==
    \A c \in CallIds :
        OnTransient(c) =>
            LET was == calls[c].at
                n == NonTransientFrom(was, was.topIndex)
                done == CommitsOf(c)
            IN IF n < 0
               THEN \A k \in 1..Len(done) :
                       done[k].t.op = "Pop" =>
                          \* the pop a replaceAsync of the entry beneath consists of
                          /\ k = 1
                          /\ calls[c].kind = "replace"
                          /\ done[k].t.to = calls[c].arg
               ELSE \A k \in 1..Len(done) :
                       /\ k <= was.topIndex - n => PopOf(done, k, was, was.topIndex - k + 1)
                       /\ (/\ done[k].t.op \in {"Push", "Replace"}
                           /\ \A j \in 1..(k - 1) : done[j].t.op = "Pop") =>
                              done[k].t.from = At(was.stack, n)

\* C31 amended - transient removal: a pushAsync/replaceAsync called while the
\* foreground is transient pops the run of transient entries on top down to
\* the first non-transient entry N, one Pop each, before anything else of the
\* call; when every entry is transient that pop is left out.  The hub/root
\* walk of the call follows and may pop further, down to the root or hub
\* activity if it lies at or below N.  The first transition of the main step
\* starts after all these pops: its `from` is the root or hub activity when
\* the walk popped below N, and N otherwise (the old foreground when every
\* entry is transient).
C31_TransientPop ==
    \A c \in CallIds :
        OnTransient(c) =>
            LET was == calls[c].at
                n == NonTransientFrom(was, was.topIndex)
                base == IF n >= 0 THEN n ELSE was.topIndex
                target == WalkTargetAt(was, calls[c].arg)
                walked == IF target = None THEN -1 ELSE TopmostFrom(was, target, base)
                m == IF walked >= 0 THEN walked ELSE base
                pops == was.topIndex - m
                done == CommitsOf(c)
            IN /\ \A k \in 1..Len(done) :
                     /\ k <= pops => PopOf(done, k, was, was.topIndex - k + 1)
                     /\ k = pops + 1 =>
                           /\ done[k].t.from = At(was.stack, m)
                           /\ \/ done[k].t.op = "Push" /\ calls[c].kind = "push"
                              \/ done[k].t.op = "Replace" /\ calls[c].kind = "replace"
                              \/ /\ done[k].t.op = "Pop" /\ calls[c].kind = "replace"
                                 /\ done[k].t.to = calls[c].arg
                                 /\ At(was.stack, m - 1) = calls[c].arg
                     /\ k > pops + 1 => done[k].t.op = "Push"
               /\ calls[c].status = "resolved" => Len(done) >= pops + 1
               /\ (c = Len(calls) /\ Len(done) <= pops) =>
                     /\ stack = was.stack
                     /\ topIndex = was.topIndex - Len(done)

\* C31 witness: a pushAsync/replaceAsync issued on a run of two transient
\* entries above a non-transient N has resolved: both were popped, then a
\* transition from N went through its handlers and made the argument the
\* foreground.
C31_Witness ==
    \E c \in CallIds :
        /\ OnTransient(c)
        /\ c = Len(calls)
        /\ calls[c].status = "resolved"
        /\ NonTransientFrom(calls[c].at, calls[c].at.topIndex) = calls[c].at.topIndex - 2
        /\ Len(CommitsOf(c)) = 3
        /\ ~CommitsOf(c)[3].noop
        /\ CommitsOf(c)[3].t.op \in {"Push", "Replace"}
        /\ CommitsOf(c)[3].t.from = At(calls[c].at.stack, calls[c].at.topIndex - 2)
        /\ Top = calls[c].arg

\* ------------------------------------------------------------- two stacks
\* A second ActivityStack of the same module: it has its own array, top index,
\* history ids and _transitionP chain, and shares the module-level variables
\* _nextHistoryId, _nextTransitionID and previousTransition with the first.
\* Its activities declare no parent and set no flag, so the pre-step of its
\* pushAsync pops nothing and its main step is one Push.
MaxPeerCalls == 2

PeerActivities == {"b1", "b2"}

PeerTop == IF peer.topIndex < 0 THEN None ELSE At(peer.stack, peer.topIndex)

\* pushAsync(b) on the second stack: the main step is chained on its _transitionP
PeerPushAsync(b) ==
    /\ peer.calls < MaxPeerCalls
    /\ peer' = [peer EXCEPT !.calls = @ + 1,
                            !.q = Append(@, [kind |-> "push", arg |-> b, call |-> peer.calls + 1,
                                             st |-> "queued", t |-> NoT])]
    /\ UNCHANGED <<options, upLimit, cursors, track,
                   stack, topIndex, historyIds, nextHistoryId,
                   nextTransitionID, previousTransition, transQ, transErr, pushQ, pushErr,
                   nextSeq, doneSeq, calls, commits, sigs>>

\* popAsync() on the second stack
PeerPopAsync ==
    /\ peer.calls < MaxPeerCalls
    /\ peer' = [peer EXCEPT !.calls = @ + 1,
                            !.q = Append(@, [kind |-> "pop", arg |-> None, call |-> peer.calls + 1,
                                             st |-> "queued", t |-> NoT])]
    /\ UNCHANGED <<options, upLimit, cursors, track,
                   stack, topIndex, historyIds, nextHistoryId,
                   nextTransitionID, previousTransition, transQ, transErr, pushQ, pushErr,
                   nextSeq, doneSeq, calls, commits, sigs>>

\* the callback of the head entry of the second stack's chain runs:
\* `previousTransition = undefined`, then popAsync throws on an empty stack,
\* and otherwise _processTransition creates the record, links and replaces
\* previousTransition, and either returns at `this.top === to` or emits
\* Suspending and waits for the handlers
PeerBegin ==
    /\ peer.q # <<>>
    /\ ~peer.err
    /\ peer.q[1].st = "queued"
    /\ LET e == peer.q[1]
           op == IF e.kind = "pop" THEN "Pop" ELSE "Push"
           to == IF e.kind = "pop" THEN At(peer.stack, peer.topIndex - 1) ELSE e.arg
           t == [id |-> nextTransitionID, op |-> op, to |-> to, from |-> PeerTop,
                 previous |-> -1, call |-> e.call, seq |-> 0]
       IN IF e.kind = "pop" /\ peer.topIndex < 0
          THEN /\ previousTransition' = -1
               /\ peer' = [peer EXCEPT !.err = TRUE, !.q = <<>>]
               /\ UNCHANGED nextTransitionID
          ELSE /\ previousTransition' = t.id
               /\ nextTransitionID' = nextTransitionID + 1
               /\ peer' = IF PeerTop = to
                          THEN [peer EXCEPT !.log = Append(@, t), !.q = Tail(@)]
                          ELSE [peer EXCEPT !.log = Append(@, t),
                                            !.q[1] = [e EXCEPT !.st = "waiting", !.t = t]]
    /\ UNCHANGED <<options, upLimit, cursors, track,
                   stack, topIndex, historyIds, nextHistoryId,
                   transQ, transErr, pushQ, pushErr,
                   nextSeq, doneSeq, calls, commits, sigs>>

\* the handlers of the second stack's transition have resolved: the commit
\* block of _processTransition on its array, with the shared _nextHistoryId
PeerCommit ==
    /\ peer.q # <<>>
    /\ peer.q[1].st = "waiting"
    /\ LET t == peer.q[1].t
           ti == peer.topIndex
       IN IF t.op = "Pop"
          THEN /\ peer' = [peer EXCEPT !.topIndex = ti - 1, !.q = Tail(@)]
               /\ UNCHANGED nextHistoryId
          ELSE IF Len(peer.stack) > ti + 1 /\ At(peer.stack, ti + 1) = t.to
          THEN /\ peer' = [peer EXCEPT !.topIndex = ti + 1, !.q = Tail(@)]
               /\ UNCHANGED nextHistoryId
          ELSE /\ peer' = [peer EXCEPT
                              !.stack = Append(SubSeq(peer.stack, 1, ti + 1), t.to),
                              !.topIndex = ti + 1,
                              !.historyIds = Append(SubSeq(peer.historyIds, 1, ti + 1),
                                                    nextHistoryId),
                              !.q = Tail(@)]
               /\ nextHistoryId' = nextHistoryId + 1
    /\ UNCHANGED <<options, upLimit, cursors, track,
                   stack, topIndex, historyIds,
                   nextTransitionID, previousTransition, transQ, transErr, pushQ, pushErr,
                   nextSeq, doneSeq, calls, commits, sigs>>

\* the first stack is used for pushes of activities with ancestors, the second
\* for pushes and pops, in any interleaving of their callbacks
TwoPushes == {"a2"}

InitTwo ==
    /\ Init
    /\ options.a1.isRootActivity

NextTwo ==
    \/ \E a \in TwoPushes : CallPush("push", a)
    \/ \E i \in 1..Len(transQ) : Begin(i)
    \/ \E i \in 1..Len(transQ) : HandlersDone(i)
    \/ \E i \in 1..Len(transQ) : Commit(i)
    \/ \E i \in 1..Len(transQ) : Continue(i)
    \/ \E j \in 1..Len(pushQ) : PreStep(j)
    \/ \E j \in 1..Len(pushQ) : AfterPopped(j)
    \/ \E j \in 1..Len(pushQ) : PushDone(j)
    \/ \E b \in PeerActivities : PeerPushAsync(b)
    \/ PeerPopAsync
    \/ PeerBegin
    \/ PeerCommit

SpecTwo == InitTwo /\ [][NextTwo]_vars

\* the transition records created so far by the first stack
OwnRecords ==
    {commits[k].t : k \in 1..Len(commits)}
        \cup {transQ[i].t : i \in {j \in 1..Len(transQ) : transQ[j].t.id >= 0}}

\* and those created by the second stack
PeerRecords == {peer.log[k] : k \in 1..Len(peer.log)}

\* C32 - previous-chain isolation between stacks: with operations on two
\* ActivityStack instances interleaving, the `previous` of every transition
\* record, when present, is a record created by the same stack for the same
\* top-level operation.
C32_Isolation ==
    /\ \A r \in OwnRecords :
          r.previous >= 0 =>
             \E p \in OwnRecords : p.id = r.previous /\ p.call = r.call
    /\ \A r \in PeerRecords :
          r.previous >= 0 =>
             \E p \in PeerRecords : p.id = r.previous /\ p.call = r.call

\* C33 - the activity that becomes the foreground in a transition is not sent
\* Deactivated in that transition: the commit of a Push or Replace emits no
\* Deactivated on its `to`.
C33_ToNotDeactivated ==
    [][ (CommitStep /\ CommittedT.op \in {"Push", "Replace"}) =>
           \A k \in 1..Len(Deactivations) : Deactivations[k] # CommittedT.to
      ]_vars

\* commit k emitted Started on a: it went through its handlers and did not resume
StartedAt(k, a) ==
    /\ ~commits[k].noop
    /\ ~commits[k].resuming
    /\ commits[k].t.to = a

\* commit k emitted Deactivated on a (before its Started/Resumed)
DeactivatedAt(k, a) == \E j \in 1..Len(commits[k].deact) : commits[k].deact[j] = a

\* C34 - lifecycle pairing: between two Started signals emitted on an activity
\* there is a Deactivated signal on it, so an activity that was started and
\* not deactivated since is resumed, not started again.
C34_StartedOnce ==
    \A a \in Activities :
        \A j \in 1..Len(commits) :
            \A k \in (j + 1)..Len(commits) :
                (StartedAt(j, a) /\ StartedAt(k, a)) =>
                    \E m \in (j + 1)..k : DeactivatedAt(m, a)

\* commit k emitted Resumed or Suspended on a
TouchedAt(k, a) ==
    /\ ~commits[k].noop
    /\ a # None
    /\ commits[k].t.to = a \/ commits[k].t.from = a

\* C35 - Deactivated is only emitted on a suspended activity: when a commit
\* emits Deactivated on an activity, the most recent Resumed or Suspended
\* signal emitted on it before is a Suspended (its own Resumed and Suspended
\* signals come after its Deactivated signals).
C35_DeactivatedSuspended ==
    \A k \in 1..Len(commits) :
        \A d \in 1..Len(commits[k].deact) :
            LET a == commits[k].deact[d] IN
            \E m \in 1..(k - 1) :
                /\ TouchedAt(m, a)
                /\ commits[m].t.from = a
                /\ \A n \in (m + 1)..(k - 1) : ~TouchedAt(n, a)

\* C36 - history ids are pairwise distinct: every slot of the array has an id,
\* no two slots hold the same id, and every id in use was minted before (it is
\* below the counter).  The slot a Push or Replace appends gets the id the
\* counter stands at, which is then raised; no other step changes the id of a
\* slot, and the counter never goes down: an id cut off by a truncation or a replace is
\* never assigned again, and getHistoryPosition finds at most one slot.
C36_DistinctIds ==
    /\ [](/\ Len(historyIds) = Len(stack)
          /\ \A k \in 1..Len(historyIds) :
                /\ historyIds[k] \in 0..(nextHistoryId - 1)
                /\ \A j \in 1..(k - 1) : historyIds[j] # historyIds[k])
    /\ [][ /\ nextHistoryId' >= nextHistoryId
           /\ IF CommitStep /\ CommittedT.op \in {"Push", "Replace"}
                 /\ ~(CommittedT.op = "Push" /\ At(stack, topIndex + 1) = CommittedT.to)
              THEN /\ historyIds'[topIndex' + 1] = nextHistoryId
                   /\ nextHistoryId' = nextHistoryId + 1
                   /\ Len(historyIds') = topIndex' + 1
                   /\ \A k \in 1..topIndex' : historyIds'[k] = historyIds[k]
              ELSE historyIds' = historyIds
         ]_vars

\* C36 witness: ids have been cut off and the slots filled again: the array
\* holds two or more slots whose ids are not consecutive.
C36_Witness ==
    /\ Len(historyIds) >= 2
    /\ \E k \in 2..Len(historyIds) : historyIds[k] > historyIds[k - 1] + 1
    /\ topIndex = Len(stack) - 1

\* the callback of the queued entry e runs in this step (it is not skipped by
\* a rejection of the chain)
StepRuns(e) ==
    /\ e.st = "queued"
    /\ transErr = None
    /\ transErr' = None
    /\ \A j \in 1..Len(transQ') : transQ'[j].seq = e.seq => transQ'[j].st # "queued"

\* C37 - upAsync without a match: when the step of an upAsync(target) runs and
\* no entry of the active region matches the target (the stack may be empty),
\* the step finishes at once: it creates no transition record, emits no
\* signal, leaves the array, topIndex and the history ids as they are, and the
\* future of the call resolves to undefined in that step.
C37_UpNoMatch ==
    [][ \A i \in 1..Len(transQ) :
           LET e == transQ[i] IN
           (e.kind = "up" /\ ~ContainsTarget(e.arg) /\ StepRuns(e)) =>
               /\ UNCHANGED <<stack, topIndex, historyIds, nextHistoryId,
                              nextTransitionID, commits, sigs>>
               /\ \A j \in 1..Len(transQ') : transQ'[j].seq # e.seq
               /\ doneSeq' >= e.seq
               /\ e.own =>
                     /\ calls[e.call].status = "pending"
                     /\ calls'[e.call].status = "resolved"
                     /\ calls'[e.call].res = None
                     /\ calls'[e.call].err = None
      ]_vars

\* C37 witness: an upAsync called directly has resolved to undefined without a
\* single pop on a stack that is not empty and holds no match for its target.
C37_Witness ==
    \E c \in CallIds :
        /\ calls[c].kind = "up"
        /\ calls[c].status = "resolved"
        /\ calls[c].res = None
        /\ CommitsOf(c) = <<>>
        /\ c = Len(calls)
        /\ topIndex >= 0
        /\ ~ContainsTarget(calls[c].arg)
        /\ transQ = <<>> /\ pushQ = <<>>

\* call c is a replaceAsync(B) issued on an active region that ends in A, T
\* with T transient and A not, for a B without parent that is no root activity
\* and is not in the active region
TransientReplace(c) ==
    /\ calls[c].kind = "replace"
    /\ calls[c].at.topIndex >= 1
    /\ options[At(calls[c].at.stack, calls[c].at.topIndex)].isTransient
    /\ ~options[At(calls[c].at.stack, calls[c].at.topIndex - 1)].isTransient
    /\ options[calls[c].arg].parentActivity = None
    /\ ~options[calls[c].arg].isRootActivity
    /\ ~ContainsIn(calls[c].at.stack, calls[c].at.topIndex, calls[c].arg)

\* C38 - replaceAsync on a transient foreground: with the active region ending
\* in A, T (T transient, A not), replaceAsync(B) for a parentless B that is no
\* root and not on the stack commits the Pop of T and then the Replace of A by
\* B.  When it has resolved the active region is the former one without A and
\* T, followed by B: B stands at A's index as the last slot of the array,
\* length is one less than at the call, and neither A nor T is in the array
\* from that index on.
C38_TransientReplace ==
    \A c \in CallIds :
        TransientReplace(c) =>
            LET was == calls[c].at
                T == At(was.stack, was.topIndex)
                A == At(was.stack, was.topIndex - 1)
                B == calls[c].arg
                done == CommitsOf(c)
            IN /\ Len(done) <= 2
               /\ Len(done) >= 1 =>
                     /\ ~done[1].noop
                     /\ done[1].t.op = "Pop"
                     /\ done[1].t.from = T
                     /\ done[1].t.to = A
               /\ Len(done) >= 2 =>
                     /\ ~done[2].noop
                     /\ done[2].t.op = "Replace"
                     /\ done[2].t.from = A
                     /\ done[2].t.to = B
               /\ (c = Len(calls) /\ calls[c].status = "resolved") =>
                     /\ Len(done) = 2
                     /\ stack = Append(SubSeq(was.stack, 1, was.topIndex - 1), B)
                     /\ topIndex = was.topIndex - 1
                     /\ Length = was.topIndex
                     /\ Top = B
                     /\ Peek = None
                     /\ \A k \in (was.topIndex - 1)..(Len(stack) - 1) :
                           At(stack, k) \notin {A, T}

\* C38 witness: such a replaceAsync has resolved: B is the foreground in the
\* slot that held A, the array ends there, and the transient T and A were
\* both sent Deactivated by the Replace.
C38_Witness ==
    \E c \in CallIds :
        /\ TransientReplace(c)
        /\ c = Len(calls)
        /\ calls[c].status = "resolved"
        /\ Top = calls[c].arg
        /\ topIndex = calls[c].at.topIndex - 1
        /\ Len(stack) = topIndex + 1
        /\ Len(CommitsOf(c)) = 2
        /\ CommitsOf(c)[2].deact =
              <<At(calls[c].at.stack, calls[c].at.topIndex),
                At(calls[c].at.stack, calls[c].at.topIndex - 1)>>

====
